---- MODULE Spec2Model ----
(***************************************************************************)
(* A model of ansible-logs-view: the log parser LogParser.ParseFile of     *)
(* src/parser.go, which turns the lines of an Ansible log into Task        *)
(* records, and the terminal interface of src/internal/app/tui.go, which   *)
(* shows the tasks as a list that is filtered, scrolled and expanded.      *)
(*                                                                         *)
(* In the parser a Go string is modelled as the sequence of its pieces: a  *)
(* piece is the text of one input line (never empty, never holding a line  *)
(* break) or the line break NL.  The empty string is the empty sequence.   *)
(* Where the interface looks inside a string (the filter), the string is   *)
(* the sequence of its characters, Chars(s).                               *)
(***************************************************************************)
EXTENDS Integers, Sequences, FiniteSets, TLC

VARIABLES
    fileExists,     \* os.Open(filename) succeeds
    file,           \* the lines of the input file that a scanner has read so far
    fileEnd,        \* a scanner has met the end of the file: file is all of it
    p_tasks,        \* LogParser.tasks
    returned,       \* one entry per ParseFile call that returned: (tasks, err)
    debugLog,       \* IDs of the tasks written to debug.log
    pc,             \* "idle": no call runs; "scan": in the scan loop; "crashed"
    scanned,        \* the number of lines the scanner of this call has read
    currentTask,    \* <<>> for nil, <<t>> for a pointer to the task t
    taskID,
    inDiffSection,
    diffLines,
    model,          \* the Model the event loop holds, NoModel before NewModel
    watched,        \* the ID of the task the two histories below are about
    toggled,        \* history: the ToggleExpand events on the watched task, mod 2
    scenarioD,      \* history: how far the watched task is through Scenario D:
                    \* 1 when a toggle with no filter active has expanded it,
                    \* 2 when a filter has excluded it since, 0 otherwise
    downsFromTop,   \* history: MoveDown events in a row since selected = 0 and
                    \* offset = 0, -1 when the last events were not such a run
    logger          \* package app: debugLog, loggerMux, loggerOnce, and the
                    \* calls of setupLogger under way

env    == << fileExists, file, fileEnd >>
locals == << scanned, currentTask, taskID, inDiffSection, diffLines >>
parser == << env, p_tasks, returned, debugLog, locals >>
tui    == << model, watched, toggled, scenarioD, downsFromTop >>
vars   == << env, p_tasks, returned, debugLog, pc, locals, tui, logger >>

----------------------------------------------------------------------------
(* Bounds *)

MaxLines == 4
MaxCalls == 2

----------------------------------------------------------------------------
(* The input alphabet: one line of each shape the parser distinguishes. *)

NL == "\n"

HeaderA      == "TASK [Install pkg] ****"
HeaderB      == "TASK [ Copy file ] *"
BadHeader    == "TASK [broken"
OkLine       == "ok: [hostA]"
ChangedLine  == "changed: [hostB]"
SkippingLine == "skipping: [hostA]"
FailedLine   == "failed: [hostB]"
DiffMarker   == "--- before: /etc/motd"
PlainLine    == "+++ after: /etc/motd"
BlankLine    == ""
PathLine     == "task path: /r/main.yml:3"
TimeLine     == "Tuesday 28 October 2025  02:05:23 +0100"
StartedLine  == "[started TASK: Install pkg on hostS]"
\* lines the timestamp pattern matches and whose date-time does not parse
BadHourLine  == "Tuesday 28 October 2025  25:05:23 +0100"
BadDayLine   == "Monday 31 February 2025  02:05:23 +0100"
OneDigitDay  == "Sunday 5 October 2025  02:05:23 +0100"
\* a line the timestamp pattern matches with a word that is no month name
NoMonthLine  == "Tuesday 28 Octember 2025  02:05:23 +0100"
\* a line longer than bufio.MaxScanTokenSize: Scan() stops with ErrTooLong
LongLine     == "<line of more than 65536 bytes>"

Lines ==
    { HeaderA, HeaderB, BadHeader, OkLine, ChangedLine, SkippingLine, FailedLine,
      DiffMarker, PlainLine,
      BlankLine, PathLine, TimeLine, StartedLine, LongLine }

----------------------------------------------------------------------------
(* Strings and the library calls ParseFile makes, on the lines above. *)

\* the string holding the text of one line: a blank line is the empty string
Str(line) == IF line = "" THEN <<>> ELSE <<line>>

\* strings.Join(lines, "\n")
RECURSIVE Join(_)
Join(lines) ==
    IF Len(lines) = 0 THEN <<>>
    ELSE IF Len(lines) = 1 THEN Str(lines[1])
    ELSE Str(lines[1]) \o <<NL>> \o Join(Tail(lines))

\* strings.HasPrefix(line, prefix), for the prefixes the parser tests
HasPrefix(line, prefix) ==
    CASE prefix = "TASK ["    -> line \in { HeaderA, HeaderB, BadHeader }
      [] prefix = "ok:"       -> line = OkLine
      [] prefix = "changed:"  -> line = ChangedLine
      [] prefix = "skipping:" -> line = SkippingLine
      [] prefix = "failed:"   -> line = FailedLine
      [] OTHER                -> FALSE

\* strings.TrimSpace
TrimSpace(s) == IF s = " Copy file " THEN "Copy file" ELSE s

\* regexp FindStringSubmatch: the whole match and the groups, <<>> for nil.
\* taskRegex = `^TASK \[(.*?)\] \*+$`
taskRegex(line) ==
    CASE line = HeaderA -> << HeaderA, "Install pkg" >>
      [] line = HeaderB -> << HeaderB, " Copy file " >>
      [] OTHER          -> << >>

\* startedRegex = `\[started TASK: (.*?) on (.*?)\]`
startedRegex(line) ==
    IF line = StartedLine THEN << StartedLine, "Install pkg", "hostS" >> ELSE << >>

\* pathRegex = `task path: (.*)`
pathRegex(line) ==
    IF line = PathLine THEN << PathLine, "/r/main.yml:3" >> ELSE << >>

\* timeRegex = `^(\w+) (\d+) (\w+) (\d+)  (\d+):(\d+):(\d+)`
timeRegex(line) ==
    CASE line = TimeLine
           -> << "Tuesday 28 October 2025  02:05:23",
                 "Tuesday", "28", "October", "2025", "02", "05", "23" >>
      [] line = BadHourLine
           -> << "Tuesday 28 October 2025  25:05:23",
                 "Tuesday", "28", "October", "2025", "25", "05", "23" >>
      [] line = BadDayLine
           -> << "Monday 31 February 2025  02:05:23",
                 "Monday", "31", "February", "2025", "02", "05", "23" >>
      [] line = OneDigitDay
           -> << "Sunday 5 October 2025  02:05:23",
                 "Sunday", "5", "October", "2025", "02", "05", "23" >>
      [] line = NoMonthLine
           -> << "Tuesday 28 Octember 2025  02:05:23",
                 "Tuesday", "28", "Octember", "2025", "02", "05", "23" >>
      [] OTHER -> << >>

\* okRegex = `^ok: \[(.*?)\]` and its three siblings
okRegex(line)       == IF line = OkLine THEN << OkLine, "hostA" >> ELSE << >>
changedRegex(line)  == IF line = ChangedLine THEN << ChangedLine, "hostB" >> ELSE << >>
skippingRegex(line) == IF line = SkippingLine THEN << SkippingLine, "hostA" >> ELSE << >>
failedRegex(line)   == IF line = FailedLine THEN << FailedLine, "hostB" >> ELSE << >>

\* diffStartRegex = `^--- before:` (MatchString)
diffStartRegex(line) == line = DiffMarker

MonthNames ==
    << "January", "February", "March", "April", "May", "June", "July",
       "August", "September", "October", "November", "December" >>

TwoDigits ==
    << "00", "01", "02", "03", "04", "05", "06", "07", "08", "09",
       "10", "11", "12", "13", "14", "15", "16", "17", "18", "19",
       "20", "21", "22", "23", "24", "25", "26", "27", "28", "29",
       "30", "31", "32", "33", "34", "35", "36", "37", "38", "39",
       "40", "41", "42", "43", "44", "45", "46", "47", "48", "49",
       "50", "51", "52", "53", "54", "55", "56", "57", "58", "59" >>

\* monthMap[monthStr], "" when the key is absent
monthMap(monthStr) ==
    IF \E i \in 1..12 : MonthNames[i] = monthStr
    THEN TwoDigits[(CHOOSE i \in 1..12 : MonthNames[i] = monthStr) + 1]
    ELSE ""

\* the zero time.Time
ZeroTime == << "0001", "01", "01", "00", "00", "00" >>

\* the value a two-digit field denotes, -1 when it is not two digits below 60
TwoDigitValue(s) ==
    IF \E i \in 1..60 : TwoDigits[i] = s
    THEN (CHOOSE i \in 1..60 : TwoDigits[i] = s) - 1
    ELSE -1

Years == { "2025" }

DaysIn(year, month) ==
    IF month \in { 4, 6, 9, 11 } THEN 30
    ELSE IF month = 2 THEN 28
    ELSE 31

\* time.Parse("2006-01-02 15:04:05", year-month-day hour:minute:second):
\* <<TRUE, t>> or <<FALSE, ZeroTime>> (err # nil)
timeParse(year, month, day, hour, minute, second) ==
    LET mo == TwoDigitValue(month)
        d  == TwoDigitValue(day)
        h  == TwoDigitValue(hour)
        mi == TwoDigitValue(minute)
        s  == TwoDigitValue(second)
        ok == /\ year \in Years
              /\ mo >= 1 /\ mo <= 12
              /\ d >= 1 /\ d <= DaysIn(year, mo)
              /\ h >= 0 /\ h <= 23
              /\ mi >= 0 /\ s >= 0
    IN  IF ok THEN << TRUE, << year, month, day, hour, minute, second >> >>
        ELSE << FALSE, ZeroTime >>

----------------------------------------------------------------------------
(* LogParser.ParseFile, src/parser.go.  The operators below work on st, the *)
(* record of p.tasks, debug.log and the locals of the call.                 *)

\* the Task literal of ParseFile: the fields not named keep their zero value
NewTask(id, line) ==
    [ ID          |-> id,
      Description |-> TrimSpace(taskRegex(line)[2]),
      StartTime   |-> ZeroTime,
      Status      |-> "unknown",
      Host        |-> "",
      Path        |-> "",
      Diff        |-> << >>,
      RawText     |-> Str(line) \o << NL >> ]

\* "Add any remaining diff content"
FlushDiff(task, lines) ==
    IF Len(lines) > 0
    THEN IF task.Diff # << >>
         THEN [ task EXCEPT !.Diff = @ \o << NL >> \o Join(lines) ]
         ELSE [ task EXCEPT !.Diff = Join(lines) ]
    ELSE task

\* save the current task: flush its diff, log it, append a copy to p.tasks
SaveCurrent(st) ==
    IF st.currentTask # << >>
    THEN LET t == FlushDiff(st.currentTask[1], st.diffLines)
         IN  [ st EXCEPT !.currentTask = << t >>,
                         !.debugLog = Append(@, t.ID),
                         !.tasks = Append(@, t) ]
    ELSE st

\* OpenTask without taskID++: every task gets the same ID
OpenTask_NoIncrement(st, line) ==
    LET saved == SaveCurrent(st)
    IN  IF Len(taskRegex(line)) < 2
        THEN [ saved EXCEPT !.diffLines = << >>, !.panicked = TRUE ]
        ELSE [ saved EXCEPT !.diffLines = << >>,
                            !.currentTask = << NewTask(saved.taskID, line) >> ]

\* a line with the prefix "TASK [": save the current task and open a new one
\* OpenTask that keeps the pending diff lines for the task it opens
OpenTask_KeepsDiffLines(st, line) ==
    LET saved == SaveCurrent(st)
    IN  IF Len(taskRegex(line)) < 2
        THEN [ saved EXCEPT !.panicked = TRUE ]
        ELSE [ saved EXCEPT !.currentTask = << NewTask(saved.taskID, line) >>,
                            !.taskID = @ + 1 ]

OpenTask(st, line) ==
    LET saved == SaveCurrent(st)
    IN  IF Len(taskRegex(line)) < 2
        THEN \* FindStringSubmatch returned nil: index out of range
             [ saved EXCEPT !.diffLines = << >>, !.panicked = TRUE ]
        ELSE [ saved EXCEPT !.diffLines = << >>,
                            !.currentTask = << NewTask(saved.taskID, line) >>,
                            !.taskID = @ + 1 ]

\* a line read while inDiffSection is set
DiffSectionLine(st, line) ==
    IF \/ line = ""
       \/ HasPrefix(line, "TASK [")
       \/ HasPrefix(line, "ok:") \/ HasPrefix(line, "changed:")
       \/ HasPrefix(line, "skipping:") \/ HasPrefix(line, "failed:")
    THEN [ st EXCEPT !.currentTask = << FlushDiff(st.currentTask[1], st.diffLines) >>,
                     !.inDiffSection = FALSE,
                     !.diffLines = << >> ]
    ELSE [ st EXCEPT !.diffLines = Append(@, line) ]

\* StartTimeOf that stores what time.Parse returns, also with an error
StartTimeOf_StoresFailure(task, m) ==
    LET monthNum == IF monthMap(m[4]) = "" THEN "01" ELSE monthMap(m[4])
        parsed   == timeParse(m[5], monthNum, m[3], m[6], m[7], m[8])
    IN  [ task EXCEPT !.StartTime = parsed[2] ]

\* "Extract start time"
StartTimeOf(task, m) ==
    LET monthNum == IF monthMap(m[4]) = "" THEN "01" ELSE monthMap(m[4])
        parsed   == timeParse(m[5], monthNum, m[3], m[6], m[7], m[8])
    IN  IF parsed[1] THEN [ task EXCEPT !.StartTime = parsed[2] ] ELSE task

\* TaskLine with the started rule taking group 1, the task name, as the host
TaskLine_StartedGroupOne(task, line) ==
    IF Len(pathRegex(line)) > 1 THEN [ task EXCEPT !.Path = pathRegex(line)[2] ]
    ELSE IF Len(timeRegex(line)) > 7 THEN StartTimeOf(task, timeRegex(line))
    ELSE IF Len(startedRegex(line)) > 2 THEN [ task EXCEPT !.Host = startedRegex(line)[2] ]
    ELSE IF Len(okRegex(line)) > 1
         THEN [ task EXCEPT !.Status = "ok", !.Host = okRegex(line)[2] ]
    ELSE IF Len(changedRegex(line)) > 1
         THEN [ task EXCEPT !.Status = "changed", !.Host = changedRegex(line)[2] ]
    ELSE IF Len(skippingRegex(line)) > 1
         THEN [ task EXCEPT !.Status = "skipping", !.Host = skippingRegex(line)[2] ]
    ELSE IF Len(failedRegex(line)) > 1
         THEN [ task EXCEPT !.Status = "failed", !.Host = failedRegex(line)[2] ]
    ELSE task

\* a line of the current task outside a diff section: the first rule that
\* matches is applied
TaskLine(task, line) ==
    IF Len(pathRegex(line)) > 1 THEN [ task EXCEPT !.Path = pathRegex(line)[2] ]
    ELSE IF Len(timeRegex(line)) > 7 THEN StartTimeOf(task, timeRegex(line))
    ELSE IF Len(startedRegex(line)) > 2 THEN [ task EXCEPT !.Host = startedRegex(line)[3] ]
    ELSE IF Len(okRegex(line)) > 1
         THEN [ task EXCEPT !.Status = "ok", !.Host = okRegex(line)[2] ]
    ELSE IF Len(changedRegex(line)) > 1
         THEN [ task EXCEPT !.Status = "changed", !.Host = changedRegex(line)[2] ]
    ELSE IF Len(skippingRegex(line)) > 1
         THEN [ task EXCEPT !.Status = "skipping", !.Host = skippingRegex(line)[2] ]
    ELSE IF Len(failedRegex(line)) > 1
         THEN [ task EXCEPT !.Status = "failed", !.Host = failedRegex(line)[2] ]
    ELSE task

\* AppendRaw without the line break
AppendRaw_NoLineBreak(task, line) == [ task EXCEPT !.RawText = @ \o Str(line) ]

\* "Add the current line to the raw text"
AppendRaw(task, line) == [ task EXCEPT !.RawText = @ \o Str(line) \o << NL >> ]

\* LoopBody with the diff-start test ahead of the test for a current task
LoopBody_MarkerBeforeNilCheck(st, line) ==
    IF HasPrefix(line, "TASK [") THEN OpenTask(st, line)
    ELSE IF diffStartRegex(line) /\ st.currentTask = << >>
         THEN [ st EXCEPT !.inDiffSection = TRUE, !.diffLines = << line >> ]
    ELSE IF st.currentTask = << >> THEN st
    ELSE LET s1 == [ st EXCEPT !.currentTask = << AppendRaw(st.currentTask[1], line) >> ]
         IN  IF diffStartRegex(line)
             THEN [ s1 EXCEPT !.inDiffSection = TRUE, !.diffLines = << line >> ]
             ELSE IF s1.inDiffSection THEN DiffSectionLine(s1, line)
             ELSE [ s1 EXCEPT !.currentTask = << TaskLine(s1.currentTask[1], line) >> ]

\* LoopBody that adds the line to the raw text of the last saved task too
LoopBody_WritesSavedTask(st, line) ==
    LET s2 == IF HasPrefix(line, "TASK [") THEN OpenTask(st, line)
              ELSE IF st.currentTask = << >> THEN st
              ELSE LET s1 == [ st EXCEPT !.currentTask =
                                            << AppendRaw(st.currentTask[1], line) >> ]
                   IN  IF diffStartRegex(line)
                       THEN [ s1 EXCEPT !.inDiffSection = TRUE, !.diffLines = << line >> ]
                       ELSE IF s1.inDiffSection THEN DiffSectionLine(s1, line)
                       ELSE [ s1 EXCEPT !.currentTask =
                                            << TaskLine(s1.currentTask[1], line) >> ]
    IN  IF Len(st.tasks) > 0 /\ ~HasPrefix(line, "TASK [")
        THEN [ s2 EXCEPT !.tasks[Len(st.tasks)] = AppendRaw(@, line) ]
        ELSE s2

\* the body of the scan loop, for one line
LoopBody(st, line) ==
    IF HasPrefix(line, "TASK [") THEN OpenTask(st, line)
    ELSE IF st.currentTask = << >> THEN st
    ELSE LET s1 == [ st EXCEPT !.currentTask = << AppendRaw(st.currentTask[1], line) >> ]
         IN  IF diffStartRegex(line)
             THEN [ s1 EXCEPT !.inDiffSection = TRUE, !.diffLines = << line >> ]
             ELSE IF s1.inDiffSection THEN DiffSectionLine(s1, line)
             ELSE [ s1 EXCEPT !.currentTask = << TaskLine(s1.currentTask[1], line) >> ]

ErrNone     == "nil"
ErrOpenFile == "error opening file"
ErrDebugLog == "error opening debug log file"
ErrReadFile == "error reading file"

\* what a call returns: ([]Task, error)
Result(tasks, err) == [ tasks |-> tasks, err |-> err ]

----------------------------------------------------------------------------

\* main has not built a Model: no terminal interface runs
NoModel == [ loaded |-> FALSE ]

\* the goroutines that call setupLogger, and the calls they make in all
MaxGoroutines == 2
MaxSetups == 3
Goroutines == 1..MaxGoroutines

\* the package variables as the program starts: debugLog is nil, loggerOnce
\* and loggerMux are zero values. at[g] is where goroutine g stands in
\* setupLogger and enableDebug[g] the argument of its call; calls, returns
\* and inits count the calls begun, the calls returned and the assignments
\* to debugLog
NoLogger ==
    [ debugLog    |-> "nil",
      done        |-> FALSE,
      onceM       |-> 0,
      loggerMux   |-> 0,
      at          |-> [ g \in Goroutines |-> "idle" ],
      enableDebug |-> [ g \in Goroutines |-> FALSE ],
      calls       |-> 0,
      returns     |-> 0,
      inits       |-> 0 ]

\* the function given to loggerOnce.Do; opens: os.OpenFile("debug.log") succeeds
newDebugLog(enableDebug, opens) ==
    IF enableDebug /\ opens THEN "file" ELSE "discard"

\* a whole call of setupLogger while no other call is under way
setupLogger(lg, enableDebug, opens) ==
    IF lg.done
    THEN [ lg EXCEPT !.calls = @ + 1, !.returns = @ + 1 ]
    ELSE [ lg EXCEPT !.debugLog = newDebugLog(enableDebug, opens),
                     !.done = TRUE,
                     !.inits = @ + 1,
                     !.calls = @ + 1,
                     !.returns = @ + 1 ]

\* the record st of the current state
St ==
    [ tasks         |-> p_tasks,
      debugLog      |-> debugLog,
      currentTask   |-> currentTask,
      taskID        |-> taskID,
      inDiffSection |-> inDiffSection,
      diffLines     |-> diffLines,
      panicked      |-> FALSE ]

\* the locals as ParseFile declares them, and when no call runs
FreshLocals ==
    /\ scanned' = 0
    /\ currentTask' = << >>
    /\ taskID' = 1
    /\ inDiffSection' = FALSE
    /\ diffLines' = << >>

Init ==
    /\ fileExists \in BOOLEAN
    /\ file = << >>
    /\ fileEnd = FALSE
    /\ p_tasks = << >>
    /\ returned = << >>
    /\ debugLog = << >>
    /\ pc = "idle"
    /\ scanned = 0
    /\ currentTask = << >>
    /\ taskID = 1
    /\ inDiffSection = FALSE
    /\ diffLines = << >>
    /\ model = NoModel
    /\ watched = 0
    /\ toggled = 0
    /\ scenarioD = 0
    /\ downsFromTop = -1
    /\ logger = NoLogger

\* ParseFile up to the scan loop; debugLogOpens: os.OpenFile("debug.log") succeeds
Enter(debugLogOpens) ==
    /\ pc = "idle"
    /\ IF ~fileExists
       THEN /\ returned' = Append(returned, Result(<< >>, ErrOpenFile))
            /\ pc' = "idle"
       ELSE IF ~debugLogOpens
       THEN /\ returned' = Append(returned, Result(<< >>, ErrDebugLog))
            /\ pc' = "idle"
       ELSE /\ pc' = "scan"
            /\ UNCHANGED returned
    /\ FreshLocals
    /\ UNCHANGED << env, p_tasks, debugLog, tui, logger >>

\* main: parser := NewLogParser(); tasks, err := parser.ParseFile(filename)
ParseFile ==
    /\ Len(returned) = 0
    /\ \E debugLogOpens \in BOOLEAN : Enter(debugLogOpens)

\* a further call of ParseFile on the same LogParser, for the same file
ParseFileAgain ==
    /\ Len(returned) > 0
    /\ Len(returned) < MaxCalls
    /\ \E debugLogOpens \in BOOLEAN : Enter(debugLogOpens)

\* scanner.Scan() returns true and the loop body runs on scanner.Text()
ScanLine(line) ==
    /\ line # LongLine
    /\ LET s1 == LoopBody(St, line)
       IN  /\ p_tasks' = s1.tasks
           /\ debugLog' = s1.debugLog
           /\ currentTask' = s1.currentTask
           /\ taskID' = s1.taskID
           /\ inDiffSection' = s1.inDiffSection
           /\ diffLines' = s1.diffLines
           /\ pc' = IF s1.panicked THEN "crashed" ELSE "scan"
    /\ scanned' = scanned + 1
    /\ UNCHANGED returned

\* scanner.Scan() returns false: "Add the last task if it exists" and return
EndScan(readError) ==
    /\ LET s1 == SaveCurrent(St)
       IN  /\ p_tasks' = s1.tasks
           /\ debugLog' = s1.debugLog
           /\ returned' = Append(returned,
                                 IF readError THEN Result(<< >>, ErrReadFile)
                                 ELSE Result(s1.tasks, ErrNone))
    /\ pc' = "idle"
    /\ FreshLocals

\* the scanner reads on in a file no scanner has read to this point, the
\* lines of the file being those of the alphabet
ScanNewFrom(alphabet) ==
    /\ pc = "scan"
    /\ scanned = Len(file)
    /\ ~fileEnd
    /\ \/ /\ Len(file) < MaxLines
          /\ \E line \in alphabet :
                /\ file' = Append(file, line)
                /\ fileEnd' = (line = LongLine)
                /\ IF line = LongLine THEN EndScan(TRUE) ELSE ScanLine(line)
       \/ /\ fileEnd' = TRUE
          /\ EndScan(FALSE)
          /\ UNCHANGED file
    /\ UNCHANGED << fileExists, tui, logger >>

ScanNew == ScanNewFrom(Lines)

\* the lines of the logs with timestamps that parse and that do not
TimestampLines ==
    { HeaderA, TimeLine, BadHourLine, BadDayLine, OneDigitDay, NoMonthLine,
      DiffMarker, BlankLine, OkLine }

ScanTimestamps == ScanNewFrom(TimestampLines)

\* the scanner reads what an earlier call has read
ScanKnown ==
    /\ pc = "scan"
    /\ \/ /\ scanned < Len(file)
          /\ IF file[scanned + 1] = LongLine THEN EndScan(TRUE)
             ELSE ScanLine(file[scanned + 1])
       \/ /\ scanned = Len(file)
          /\ fileEnd
          /\ EndScan(FALSE)
    /\ UNCHANGED << env, tui, logger >>

Next == ParseFile \/ ParseFileAgain \/ ScanNew \/ ScanKnown

\* the program: one call of ParseFile on a fresh LogParser
Spec == Init /\ [][ParseFile \/ ScanNew]_vars

\* one call of ParseFile on the logs with timestamps
TimestampSpec == Init /\ [][ParseFile \/ ScanTimestamps]_vars

\* the LogParser used again on the same file
ReuseSpec == Init /\ [][Next]_vars

----------------------------------------------------------------------------
(* The terminal interface, src/internal/app/tui.go: strings by character.  *)

Digits == << "0", "1", "2", "3", "4", "5", "6", "7", "8", "9" >>

UpperCase ==
    << "A", "B", "C", "D", "E", "F", "G", "H", "I", "J", "K", "L", "M",
       "N", "O", "P", "Q", "R", "S", "T", "U", "V", "W", "X", "Y", "Z" >>

LowerCase ==
    << "a", "b", "c", "d", "e", "f", "g", "h", "i", "j", "k", "l", "m",
       "n", "o", "p", "q", "r", "s", "t", "u", "v", "w", "x", "y", "z" >>

\* the characters of a string that a field of a parsed task can hold
CharsOf(s) ==
    CASE s = ""              -> << >>
      [] s = "Install pkg"   -> << "I", "n", "s", "t", "a", "l", "l", " ", "p", "k", "g" >>
      [] s = "Copy file"     -> << "C", "o", "p", "y", " ", "f", "i", "l", "e" >>
      [] s = "unknown"       -> << "u", "n", "k", "n", "o", "w", "n" >>
      [] s = "ok"            -> << "o", "k" >>
      [] s = "changed"       -> << "c", "h", "a", "n", "g", "e", "d" >>
      [] s = "skipping"      -> << "s", "k", "i", "p", "p", "i", "n", "g" >>
      [] s = "failed"        -> << "f", "a", "i", "l", "e", "d" >>
      [] s = "hostA"         -> << "h", "o", "s", "t", "A" >>
      [] s = "hostB"         -> << "h", "o", "s", "t", "B" >>
      [] s = "hostS"         -> << "h", "o", "s", "t", "S" >>
      [] s = "/r/main.yml:3" -> << "/", "r", "/", "m", "a", "i", "n", ".", "y", "m", "l", ":", "3" >>
      [] s = "2025"          -> << "2", "0", "2", "5" >>
      [] s = "0001"          -> << "0", "0", "0", "1" >>
      [] s = DiffMarker      -> << "-", "-", "-", " ", "b", "e", "f", "o", "r", "e", ":",
                                   " ", "/", "e", "t", "c", "/", "m", "o", "t", "d" >>
      [] s = PlainLine       -> << "+", "+", "+", " ", "a", "f", "t", "e", "r", ":",
                                   " ", "/", "e", "t", "c", "/", "m", "o", "t", "d" >>
      [] OTHER               -> << Digits[(TwoDigitValue(s) \div 10) + 1],
                                   Digits[(TwoDigitValue(s) % 10) + 1] >>

\* the strings the fields of a parsed task hold: descriptions, statuses,
\* hosts, paths, the lines of a diff, and the year and the two-digit fields
\* of a start time
FieldStrings ==
    { "", "Install pkg", "Copy file", "unknown", "ok", "changed", "skipping", "failed",
      "hostA", "hostB", "hostS", "/r/main.yml:3", "2025", "0001", DiffMarker, PlainLine }
        \cup { TwoDigits[i] : i \in 1..60 }

\* the characters of each string, computed once
CharsTable == [ f \in FieldStrings |-> CharsOf(f) ]

Chars(s) == CharsTable[s]

\* the lower-case letter of each upper-case letter
LowerOf ==
    [ c \in { UpperCase[k] : k \in 1..26 } |->
        LowerCase[CHOOSE k \in 1..26 : UpperCase[k] = c] ]

\* strings.ToLower
ToLower(s) ==
    [ i \in 1..Len(s) |-> IF s[i] \in DOMAIN LowerOf THEN LowerOf[s[i]] ELSE s[i] ]

\* strings.ToLower of each string, computed once
LowerTable == [ f \in FieldStrings |-> ToLower(CharsOf(f)) ]

\* strings.ToLower of a field of a task
Lower(s) == LowerTable[s]

\* strings.Contains
Contains(s, substr) ==
    \E i \in 0..(Len(s) - Len(substr)) : SubSeq(s, i + 1, i + Len(substr)) = substr

\* time.Time.Format(layout), for the three layouts applyFilter uses
Format(t, layout) ==
    LET date  == Chars(t[1]) \o << "-" >> \o Chars(t[2]) \o << "-" >> \o Chars(t[3])
        clock == Chars(t[4]) \o << ":" >> \o Chars(t[5]) \o << ":" >> \o Chars(t[6])
    IN  CASE layout = "2006-01-02 15:04:05" -> date \o << " " >> \o clock
          [] layout = "2006-01-02"          -> date
          [] layout = "15:04:05"            -> clock

\* Go's integer division, which truncates toward zero
Quot(a, b) == IF a >= 0 THEN a \div b ELSE -((-a) \div b)

Max(a, b) == IF a >= b THEN a ELSE b
Min(a, b) == IF a <= b THEN a ELSE b

----------------------------------------------------------------------------
(* A rendered text is known by what the viewport needs of it: whether      *)
(* strings.TrimSpace leaves nothing of it, and how many line breaks it     *)
(* holds.                                                                  *)

Text(blank, breaks) == [ blank |-> blank, breaks |-> breaks ]

\* "No nodes available."
NoNodesText == Text(FALSE, 0)

\* strings.TrimSpace of a rendered node list: every row ends in one line
\* break and the first row starts with the indicator
TrimSpaceText(t) == IF t.blank THEN Text(TRUE, 0) ELSE Text(FALSE, t.breaks - 1)

\* strings.TrimSpace(node.Description) == "", Description a text in pieces
IsBlank(description) == \A i \in 1..Len(description) : description[i] = NL

----------------------------------------------------------------------------
(* viewport.Model of the bubbles library, as the interface uses it: the    *)
(* offset, the height and the number of lines of the content.              *)

\* viewport.New(0, 0)
NewViewport == [ YOffset |-> 0, Height |-> 0, lines |-> 0 ]

maxYOffset(vp) == Max(0, vp.lines - vp.Height)

SetYOffset(vp, n) == [ vp EXCEPT !.YOffset = Min(maxYOffset(vp), Max(0, n)) ]

GotoTop(vp) == IF vp.YOffset <= 0 THEN vp ELSE SetYOffset(vp, 0)

GotoBottom(vp) == SetYOffset(vp, maxYOffset(vp))

\* ScrollUp and ScrollDown move the offset by n lines, within the content
ScrollUp(vp, n) ==
    IF vp.YOffset <= 0 \/ n = 0 \/ vp.lines = 0 THEN vp
    ELSE SetYOffset(vp, vp.YOffset - n)

ScrollDown(vp, n) ==
    IF vp.YOffset >= maxYOffset(vp) \/ n = 0 \/ vp.lines = 0 THEN vp
    ELSE SetYOffset(vp, vp.YOffset + n)

\* SetContent splits the text at its line breaks
SetContent(vp, t) ==
    LET v1 == [ vp EXCEPT !.lines = t.breaks + 1 ]
    IN  IF v1.YOffset > v1.lines - 1 THEN GotoBottom(v1) ELSE v1

----------------------------------------------------------------------------
(* Model and its methods.  A method with a pointer receiver is an operator *)
(* from the Model to the Model it leaves.  A flatNode points at an element *)
(* of m.filteredNodes: it is held as the position of that element.         *)
(* m.filteredIsNodes tells that m.filteredNodes is the slice m.nodes       *)
(* itself, not a slice of copies.  The selected index counts from 0.       *)

\* Convert tasks to tree nodes
convertTasksToNodes(tasks) ==
    [ i \in 1..Len(tasks) |->
        [ ID          |-> tasks[i].ID,
          Name        |-> tasks[i].Description,
          Description |-> tasks[i].RawText,
          StartTime   |-> tasks[i].StartTime,
          Status      |-> tasks[i].Status,
          Host        |-> tasks[i].Host,
          Path        |-> tasks[i].Path,
          Diff        |-> tasks[i].Diff,
          RawText     |-> tasks[i].RawText,
          IsExpanded  |-> FALSE ] ]

flattenNodes(nodes, depth) ==
    [ i \in 1..Len(nodes) |-> [ node |-> i, depth |-> depth ] ]

\* *m.flatNodes[i].node
NodeAt(m, i) == m.filteredNodes[m.flatNodes[i + 1].node]

\* the positions in the flattened sequence, from 0, of the expanded nodes
ExpandedAt(m) == { i \in 0..(Len(m.flatNodes) - 1) : NodeAt(m, i).IsExpanded }

\* rebuildFlatNodes that leaves expandedNodeCount as it was
rebuildFlatNodes_NoRecount(m) ==
    LET m1   == [ m EXCEPT !.flatNodes = flattenNodes(m.filteredNodes, 0) ]
        sel1 == IF m1.selected >= Len(m1.flatNodes) THEN Len(m1.flatNodes) - 1
                ELSE m1.selected
    IN  [ m1 EXCEPT !.selected = IF sel1 < 0 THEN 0 ELSE sel1 ]

rebuildFlatNodes(m) ==
    LET m1   == [ m EXCEPT !.flatNodes = flattenNodes(m.filteredNodes, 0) ]
        sel1 == IF m1.selected >= Len(m1.flatNodes) THEN Len(m1.flatNodes) - 1
                ELSE m1.selected
    IN  [ m1 EXCEPT !.expandedNodeCount = Cardinality(ExpandedAt(m1)),
                    !.selected = IF sel1 < 0 THEN 0 ELSE sel1 ]

\* the lines of descLine: Host, Path, Start Time, Status
DetailRows == 4

\* the rendered node list: a row for each node, and the detail rows of each
\* expanded node that has a description
renderNodeList(m) ==
    LET detailed == { i \in ExpandedAt(m) : ~IsBlank(NodeAt(m, i).Description) }
        rows     == Len(m.flatNodes) + DetailRows * Cardinality(detailed)
    IN  Text(rows = 0, rows)

NoNodeSelected == "No node selected."

\* the details shown are those of the selected node: its Name and Description
\* the line breaks of the details of a node: those of "Item: %s\n\n%s" and
\* those of the description
DetailBreaks(node) ==
    2 + Cardinality({ i \in 1..Len(node.Description) : node.Description[i] = NL })

\* detailsViewport holds the content set, detailsScroll the offset, height
\* and line count of the same viewport; the offset is kept ("Preserve scroll
\* position") unless SetContent finds it past the content
updateDetailsViewportContent(m) ==
    IF Len(m.flatNodes) = 0 \/ m.selected < 0 \/ m.selected >= Len(m.flatNodes)
    THEN [ m EXCEPT !.detailsViewport = << NoNodeSelected >>,
                    !.detailsScroll = SetContent(@, [ breaks |-> 0 ]) ]
    ELSE [ m EXCEPT !.detailsViewport =
                        << NodeAt(m, m.selected).Name, NodeAt(m, m.selected).Description >>,
                    !.detailsScroll =
                        SetContent(@, [ breaks |-> DetailBreaks(NodeAt(m, m.selected)) ]) ]

headerHeight     == 2
helpHeight       == 1
detailsMinHeight == 15
minNodesHeight   == 3

\* the height updateViewports gives the node list, for a terminal height
nodesViewportHeight(height) ==
    LET baseHeight     == height - headerHeight - helpHeight - 4
        detailsHeight  == IF Quot(baseHeight, 3) > detailsMinHeight
                          THEN Quot(baseHeight, 3) ELSE detailsMinHeight
    IN  IF baseHeight - detailsHeight < minNodesHeight
        THEN IF baseHeight - minNodesHeight < 3
             THEN baseHeight - 3
             ELSE minNodesHeight
        ELSE baseHeight - detailsHeight

\* lipgloss.Height(m.renderDetailsPanelTitle()): the title is one line
detailsTitleHeight == 1

\* the height updateViewports gives the details panel, for a terminal height
detailsPanelHeight(height) ==
    LET baseHeight     == height - headerHeight - helpHeight - 4
        detailsHeight  == IF Quot(baseHeight, 3) > detailsMinHeight
                          THEN Quot(baseHeight, 3) ELSE detailsMinHeight
    IN  IF baseHeight - detailsHeight < minNodesHeight
        THEN IF baseHeight - minNodesHeight < 3
             THEN 3
             ELSE baseHeight - minNodesHeight
        ELSE detailsHeight

assignViewportDimensions(m, nodesHeight) ==
    [ m EXCEPT !.nodesViewport.Height = nodesHeight,
               !.detailsScroll.Height =
                   Max(0, detailsPanelHeight(m.height) - detailsTitleHeight - 3) ]

setNodeListContentFrom(m, nodeList) ==
    LET t == IF nodeList.blank THEN NoNodesText ELSE nodeList
    IN  [ m EXCEPT !.nodesViewport = GotoTop(SetContent(@, t)) ]

setNodeListContentPreserve(m, nodeList) ==
    LET t         == IF nodeList.blank THEN NoNodesText ELSE nodeList
        cur       == m.nodesViewport.YOffset
        lines     == t.breaks + 1
        maxOffset == IF lines > m.nodesViewport.Height
                     THEN lines - m.nodesViewport.Height ELSE 0
        cur1      == IF cur > maxOffset THEN maxOffset ELSE cur
        cur2      == IF cur1 < 0 THEN 0 ELSE cur1
    IN  [ m EXCEPT !.nodesViewport = SetYOffset(SetContent(@, t), cur2) ]

updateViewports(m) ==
    LET trimmed  == TrimSpaceText(renderNodeList(m))
        nodeList == IF trimmed.blank THEN NoNodesText ELSE trimmed
        m1       == assignViewportDimensions(m, nodesViewportHeight(m.height))
    IN  updateDetailsViewportContent(setNodeListContentFrom(m1, nodeList))

\* applyFilter that searches the list on display instead of the full list
applyFilter_FromFiltered(m, term) ==
    LET lower == ToLower(term)
        matches(n) ==
            \/ Contains(Lower(n.Name), lower)
            \/ Contains(Lower(n.Status), lower)
            \/ Contains(Lower(n.Host), lower)
            \/ Contains(Lower(n.Path), lower)
            \/ Contains(Format(n.StartTime, "2006-01-02 15:04:05"), lower)
            \/ Contains(Format(n.StartTime, "2006-01-02"), lower)
            \/ Contains(Format(n.StartTime, "15:04:05"), lower)
        m1 == IF lower = << >>
              THEN [ m EXCEPT !.filteredNodes = m.nodes, !.filteredIsNodes = TRUE ]
              ELSE [ m EXCEPT !.filteredNodes = SelectSeq(m.filteredNodes, matches),
                              !.filteredIsNodes = FALSE ]
        m2 == rebuildFlatNodes(m1)
        m3 == [ m2 EXCEPT !.selected =
                              IF Len(m2.flatNodes) = 0 THEN 0
                              ELSE IF @ >= Len(m2.flatNodes) THEN Len(m2.flatNodes) - 1
                              ELSE @ ]
    IN  [ m3 EXCEPT !.nodesViewport =
                        GotoTop(SetContent(@, TrimSpaceText(renderNodeList(m3)))) ]

\* applyFilter that compares the term as it was typed
applyFilter_TermAsTyped(m, term) ==
    LET matches(n) ==
            \/ Contains(Lower(n.Name), term)
            \/ Contains(Lower(n.Status), term)
            \/ Contains(Lower(n.Host), term)
            \/ Contains(Lower(n.Path), term)
            \/ Contains(Format(n.StartTime, "2006-01-02 15:04:05"), term)
            \/ Contains(Format(n.StartTime, "2006-01-02"), term)
            \/ Contains(Format(n.StartTime, "15:04:05"), term)
        m1 == IF term = << >>
              THEN [ m EXCEPT !.filteredNodes = m.nodes, !.filteredIsNodes = TRUE ]
              ELSE [ m EXCEPT !.filteredNodes = SelectSeq(m.nodes, matches),
                              !.filteredIsNodes = FALSE ]
        m2 == rebuildFlatNodes(m1)
        m3 == [ m2 EXCEPT !.selected =
                              IF Len(m2.flatNodes) = 0 THEN 0
                              ELSE IF @ >= Len(m2.flatNodes) THEN Len(m2.flatNodes) - 1
                              ELSE @ ]
    IN  [ m3 EXCEPT !.nodesViewport =
                        GotoTop(SetContent(@, TrimSpaceText(renderNodeList(m3)))) ]

applyFilter(m, term) ==
    LET lower == ToLower(term)
        matches(n) ==
            \/ Contains(Lower(n.Name), lower)
            \/ Contains(Lower(n.Status), lower)
            \/ Contains(Lower(n.Host), lower)
            \/ Contains(Lower(n.Path), lower)
            \/ Contains(Format(n.StartTime, "2006-01-02 15:04:05"), lower)
            \/ Contains(Format(n.StartTime, "2006-01-02"), lower)
            \/ Contains(Format(n.StartTime, "15:04:05"), lower)
        m1 == IF lower = << >>
              THEN [ m EXCEPT !.filteredNodes = m.nodes, !.filteredIsNodes = TRUE ]
              ELSE [ m EXCEPT !.filteredNodes = SelectSeq(m.nodes, matches),
                              !.filteredIsNodes = FALSE ]
        m2 == rebuildFlatNodes(m1)
        m3 == [ m2 EXCEPT !.selected =
                              IF Len(m2.flatNodes) = 0 THEN 0
                              ELSE IF @ >= Len(m2.flatNodes) THEN Len(m2.flatNodes) - 1
                              ELSE @ ]
    IN  [ m3 EXCEPT !.nodesViewport =
                        GotoTop(SetContent(@, TrimSpaceText(renderNodeList(m3)))) ]

\* strings.TrimSpace of a term, a string held as its characters
RECURSIVE TrimSpaceTerm(_)
TrimSpaceTerm(term) ==
    IF term = << >> THEN << >>
    ELSE IF Head(term) = " " THEN TrimSpaceTerm(Tail(term))
    ELSE IF term[Len(term)] = " " THEN TrimSpaceTerm(SubSeq(term, 1, Len(term) - 1))
    ELSE term

\* strings.IndexRune(s[si:], r), si counted from 0: -1 when r is not there
IndexRune(s, si, r) ==
    IF \E j \in (si + 1)..Len(s) : s[j] = r
    THEN (CHOOSE j \in (si + 1)..Len(s) :
              s[j] = r /\ \A k \in (si + 1)..(j - 1) : s[k] # r) - si - 1
    ELSE -1

\* the loop of fuzzyMatch from the rune pi of the pattern, s read from si
RECURSIVE fuzzyLoop(_, _, _, _)
fuzzyLoop(pattern, s, pi, si) ==
    IF pi > Len(pattern) THEN TRUE
    ELSE LET idx == IndexRune(s, si, pattern[pi])
         IN  IF idx < 0 THEN FALSE ELSE fuzzyLoop(pattern, s, pi + 1, si + idx + 1)

\* fuzzyMatch that looks for the pattern as one run of adjacent characters
fuzzyMatch_Adjacent(pattern, s) == Contains(ToLower(s), ToLower(pattern))

fuzzyMatch(pattern, s) ==
    IF ToLower(pattern) = << >> THEN TRUE
    ELSE fuzzyLoop(ToLower(pattern), ToLower(s), 1, 0)

applyFuzzyFilter(m, term) ==
    LET trimmed == TrimSpaceTerm(term)
        matches(n) ==
            \/ fuzzyMatch(trimmed, Chars(n.Name))
            \/ fuzzyMatch(trimmed, Chars(n.Status))
            \/ fuzzyMatch(trimmed, Chars(n.Host))
            \/ fuzzyMatch(trimmed, Chars(n.Path))
            \/ fuzzyMatch(trimmed, Format(n.StartTime, "2006-01-02 15:04:05"))
        m1 == IF trimmed = << >>
              THEN [ m EXCEPT !.filteredNodes = m.nodes, !.filteredIsNodes = TRUE ]
              ELSE [ m EXCEPT !.filteredNodes = SelectSeq(m.nodes, matches),
                              !.filteredIsNodes = FALSE ]
        m2 == rebuildFlatNodes(m1)
        m3 == [ m2 EXCEPT !.selected =
                              IF Len(m2.flatNodes) = 0 THEN 0
                              ELSE IF @ >= Len(m2.flatNodes) THEN Len(m2.flatNodes) - 1
                              ELSE @ ]
    IN  [ m3 EXCEPT !.nodesViewport =
                        GotoTop(SetContent(@, TrimSpaceText(renderNodeList(m3)))) ]

\* the Model NewModel returns for the tasks of main
NewModel(tasks) ==
    LET nodes == convertTasksToNodes(tasks)
        m     == [ nodes             |-> nodes,
                   filteredNodes     |-> nodes,
                   filteredIsNodes   |-> TRUE,
                   flatNodes         |-> << >>,
                   selected          |-> 0,
                   height            |-> 24,
                   loaded            |-> TRUE,
                   nodesViewport     |-> NewViewport,
                   detailsViewport   |-> << >>,
                   detailsScroll     |-> NewViewport,
                   filterInput       |-> << >>,
                   showingFilter     |-> FALSE,
                   quitting          |-> FALSE,
                   expandedNodeCount |-> 0,
                   expandedNodeSize  |-> 4 ]
    IN  updateViewports(rebuildFlatNodes(m))

----------------------------------------------------------------------------
(* Model.Update: one operator for each key it handles.                     *)

\* scrollToSelected that counts no detail rows of expanded nodes
scrollToSelected_IndexOnly(m) ==
    IF m.selected >= m.nodesViewport.YOffset + m.nodesViewport.Height
    THEN [ m EXCEPT !.nodesViewport =
                        SetYOffset(@, m.selected - m.nodesViewport.Height + 1) ]
    ELSE m

\* "Ensure selected node is visible": the test and the SetYOffset that follow
\* a move down, a toggle and a jump to the last node
scrollToSelected(m) ==
    LET extra == m.expandedNodeCount * m.expandedNodeSize
    IN  IF m.selected + extra >= m.nodesViewport.YOffset + m.nodesViewport.Height
        THEN [ m EXCEPT !.nodesViewport =
                            SetYOffset(@, m.selected - m.nodesViewport.Height + extra + 1) ]
        ELSE m

\* case "up", "k"
keyUp(m) ==
    IF m.selected > 0
    THEN LET m1 == [ m EXCEPT !.selected = @ - 1 ]
             m2 == IF m1.selected < m1.nodesViewport.YOffset
                   THEN [ m1 EXCEPT !.nodesViewport = SetYOffset(@, m1.selected) ]
                   ELSE m1
         IN  updateDetailsViewportContent(setNodeListContentPreserve(m2, renderNodeList(m2)))
    ELSE m

\* keyDown that moves on whatever the length of the flattened sequence
keyDown_NoBound(m) ==
    LET m1 == scrollToSelected([ m EXCEPT !.selected = @ + 1 ])
    IN  updateDetailsViewportContent(setNodeListContentPreserve(m1, renderNodeList(m1)))

\* case "down", "j"
keyDown(m) ==
    IF m.selected < Len(m.flatNodes) - 1
    THEN LET m1 == scrollToSelected([ m EXCEPT !.selected = @ + 1 ])
         IN  updateDetailsViewportContent(setNodeListContentPreserve(m1, renderNodeList(m1)))
    ELSE m

\* m.flatNodes[m.selected] is an element of the slice
IndexInRange(m) == m.selected >= 0 /\ m.selected < Len(m.flatNodes)

\* case "enter" indexes m.flatNodes out of range: the program panics
enterPanics(m) == Len(m.flatNodes) > 0 /\ ~IndexInRange(m)

\* flipSelected on a copy of the node even when m.filteredNodes is m.nodes
flipSelected_CopyOnly(m) ==
    [ m EXCEPT !.filteredNodes[m.flatNodes[m.selected + 1].node].IsExpanded = ~@ ]

\* flipSelected that expands the node whatever its state
flipSelected_Expand(m) ==
    LET at == m.flatNodes[m.selected + 1].node
        m1 == [ m EXCEPT !.filteredNodes[at].IsExpanded = TRUE ]
    IN  IF m.filteredIsNodes THEN [ m1 EXCEPT !.nodes = m1.filteredNodes ] ELSE m1

\* node.IsExpanded = !node.IsExpanded, through the pointer of the flatNode
flipSelected(m) ==
    LET at == m.flatNodes[m.selected + 1].node
        m1 == [ m EXCEPT !.filteredNodes[at].IsExpanded = ~@ ]
    IN  IF m.filteredIsNodes THEN [ m1 EXCEPT !.nodes = m1.filteredNodes ] ELSE m1

\* case "enter", "return", " "
keyEnter(m) ==
    IF Len(m.flatNodes) > 0
    THEN LET oldSelected == m.selected
             m1 == updateViewports(rebuildFlatNodes(flipSelected(m)))
         IN  scrollToSelected([ m1 EXCEPT !.selected = oldSelected ])
    ELSE m

\* keyDetailDown that scrolls the node list
keyDetailDown_ScrollsList(m, n) ==
    [ m EXCEPT !.nodesViewport = ScrollDown(@, n) ]

\* case "pgup", "ctrl+u", "ctrl+k"
keyDetailUp(m, n) == [ m EXCEPT !.detailsScroll = ScrollUp(@, n) ]

\* case "pgdn", "ctrl+d", "ctrl+j"
keyDetailDown(m, n) == [ m EXCEPT !.detailsScroll = ScrollDown(@, n) ]

\* case "g"
keyTop(m) ==
    updateViewports([ m EXCEPT !.nodesViewport = GotoTop(@), !.selected = 0 ])

\* keyBottom without the test for an empty flattened sequence
keyBottom_NoGuard(m) ==
    scrollToSelected(updateViewports(
        [ m EXCEPT !.nodesViewport = GotoBottom(@),
                   !.selected = Len(m.flatNodes) - 1 ]))

\* case "G"
keyBottom(m) ==
    IF Len(m.flatNodes) > 0
    THEN scrollToSelected(updateViewports(
             [ m EXCEPT !.nodesViewport = GotoBottom(@),
                        !.selected = Len(m.flatNodes) - 1 ]))
    ELSE m

\* ti.CharLimit
CharLimit == 100

\* the keys the model types into the filter input: a character, the key
\* that deletes the last character, and a key that leaves the value alone
TypedKeys  == { "k" }
FilterKeys == TypedKeys \cup { "backspace", "left" }

\* textinput.Model.Update for a key, the cursor at the end: the new value
textinputUpdate(value, key) ==
    IF key \in TypedKeys
    THEN IF Len(value) < CharLimit THEN Append(value, key) ELSE value
    ELSE IF key = "backspace" /\ Len(value) > 0
         THEN SubSeq(value, 1, Len(value) - 1)
    ELSE value

\* filterEsc that clears the input but filters by the term that was in it
filterEsc_ApplyTerm(m) ==
    updateViewports(applyFilter(
        [ m EXCEPT !.showingFilter = FALSE, !.filterInput = << >> ], m.filterInput))

\* showingFilter, case "esc"
filterEsc(m) ==
    updateViewports(applyFilter(
        [ m EXCEPT !.showingFilter = FALSE, !.filterInput = << >> ], << >>))

\* showingFilter, case "enter"
filterEnter(m) ==
    updateViewports(applyFilter([ m EXCEPT !.showingFilter = FALSE ], m.filterInput))

\* showingFilter, default: the new value is applied as it is typed
filterValue(m, value) ==
    LET m1 == applyFilter([ m EXCEPT !.filterInput = value ], value)
    IN  setNodeListContentFrom(m1, TrimSpaceText(renderNodeList(m1)))

\* case "q", "ctrl+c": the Model returned with tea.Quit
keyQuit(m) == [ m EXCEPT !.quitting = TRUE ]

\* Update for the key ctrl+c: the filter input, when it is open, takes the
\* key as any other key, and textinput has no binding for it
keyCtrlC(m) ==
    IF m.showingFilter
    THEN filterValue(m, textinputUpdate(m.filterInput, "ctrl+c"))
    ELSE keyQuit(m)

\* case tea.WindowSizeMsg
windowSize(m, height) == updateViewports([ m EXCEPT !.height = height ])

----------------------------------------------------------------------------
(* The event loop: main has parsed a log with at least one task, built the *)
(* Model, and the program handles one message at a time.                   *)

MaxTasks == 3
MaxTerm  == 2

\* the two task blocks of the logs the interface is started on
TaskBlocks ==
    << << HeaderA, OkLine >>,
       << HeaderB, PathLine, TimeLine, FailedLine >> >>

\* which block the tasks at the odd and at the even places of a log are
LogPatterns == { << 1, 2 >>, << 2, 1 >> }

\* the log of n tasks of a pattern
RECURSIVE TasksLog(_, _)
TasksLog(n, pattern) ==
    IF n = 0 THEN << >>
    ELSE TasksLog(n - 1, pattern) \o TaskBlocks[pattern[2 - (n % 2)]]

LogFiles == { TasksLog(n, pattern) : n \in 1..MaxTasks, pattern \in LogPatterns }

\* the loop of ParseFile over all the lines of a file
RECURSIVE ScanAll(_, _)
ScanAll(st, lines) ==
    IF Len(lines) = 0 THEN st ELSE ScanAll(LoopBody(st, Head(lines)), Tail(lines))

\* what the call of ParseFile in main leaves, on a fresh LogParser
Parsed(f) ==
    SaveCurrent(ScanAll([ tasks         |-> << >>,
                          debugLog      |-> << >>,
                          currentTask   |-> << >>,
                          taskID        |-> 1,
                          inDiffSection |-> FALSE,
                          diffLines     |-> << >>,
                          panicked      |-> FALSE ], f))

\* the terminal heights of the WindowSizeMsg the model receives
Heights == { 12, 24 }

\* the terms pasted into the filter input in one message
PastedTerms ==
    { << "f", "a", "i", "l" >>, << "F", "A", "I", "L" >>, << "F", "i", "l", "e" >>,
      << "h", "o", "s", "t", "b" >>, << "O", "K" >>, << "m", "a", "i", "n" >>,
      << "2", "0", "2", "5", "-", "1", "0" >>, << "2", "8", " ", "0", "2" >>,
      << "0", "2", ":", "0", "5" >>, << "0", "0", "0", "1" >>,
      << " " >>, << " ", " " >>, << "z" >>, << "M", "o", "t", "d" >> }

\* the IDs of the nodes in the flattened sequence
ShownIDs(m) == { NodeAt(m, i).ID : i \in 0..(Len(m.flatNodes) - 1) }

\* main has parsed the log f and built the Model for its tasks
StartedOn(f) ==
    LET s == Parsed(f)
    IN  /\ fileExists = TRUE
        /\ file = f
        /\ fileEnd = TRUE
        /\ p_tasks = s.tasks
        /\ returned = << Result(s.tasks, ErrNone) >>
        /\ debugLog = s.debugLog
        /\ pc = "tui"
        /\ scanned = 0
        /\ currentTask = << >>
        /\ taskID = 1
        /\ inDiffSection = FALSE
        /\ diffLines = << >>
        /\ model = NewModel(s.tasks)
        /\ watched \in { s.tasks[i].ID : i \in 1..Len(s.tasks) }
        /\ toggled = 0
        /\ scenarioD = 0
        /\ downsFromTop = 0
        /\ logger = setupLogger(NoLogger, FALSE, TRUE)

TuiInit == \E f \in LogFiles : StartedOn(f)

\* log.Fatalf("Error parsing file: %v", err) has ended the program
FatalParsing == "Error parsing file"

\* log.Fatal("No tasks found in the log file") has ended the program
FatalNoTasks == "No tasks found in the log file"

\* main that builds the Model without looking at the number of tasks
main_NoTaskCheck ==
    /\ pc = "idle"
    /\ Len(returned) = 1
    /\ model = NoModel
    /\ IF returned[1].err # ErrNone
       THEN pc' = FatalParsing /\ UNCHANGED << tui, logger >>
       ELSE /\ pc' = "tui"
            /\ model' = NewModel(returned[1].tasks)
            /\ watched' \in { returned[1].tasks[i].ID : i \in 1..Len(returned[1].tasks) }
                             \cup { 0 }
            /\ toggled' = 0
            /\ scenarioD' = 0
            /\ downsFromTop' = 0
            /\ \E enableDebug \in BOOLEAN, opens \in BOOLEAN :
                  logger' = setupLogger(logger, enableDebug, opens)
    /\ UNCHANGED parser

\* main, from the return of ParseFile to the start of the interface
main ==
    /\ pc = "idle"
    /\ Len(returned) = 1
    /\ model = NoModel
    /\ IF returned[1].err # ErrNone
       THEN pc' = FatalParsing /\ UNCHANGED << tui, logger >>
       ELSE IF Len(returned[1].tasks) = 0
       THEN pc' = FatalNoTasks /\ UNCHANGED << tui, logger >>
       ELSE /\ pc' = "tui"
            /\ model' = NewModel(returned[1].tasks)
            /\ watched' \in { returned[1].tasks[i].ID : i \in 1..Len(returned[1].tasks) }
            /\ toggled' = 0
            /\ scenarioD' = 0
            /\ downsFromTop' = 0
            /\ \E enableDebug \in BOOLEAN, opens \in BOOLEAN :
                  logger' = setupLogger(logger, enableDebug, opens)
    /\ UNCHANGED parser

\* the program up to the start of the interface
MainSpec == Init /\ [][ParseFile \/ ScanNew \/ main]_vars

----------------------------------------------------------------------------
\* setupLogger called by several goroutines, step by step. loggerOnce.Do is
\* sync.Once.Do: a load of done; if it is unset, lock the mutex of the Once,
\* load done again, run the function if it is still unset, store done when
\* the function has returned, unlock.

\* everything but the logger
program == << parser, pc, tui >>

\* goroutine g moves from label from to label to
Goes(g, from, to, lg) ==
    /\ logger.at[g] = from
    /\ logger' = [ lg EXCEPT !.at[g] = to ]
    /\ UNCHANGED program

\* a goroutine that is in no call calls setupLogger(enableDebug)
CallSetupLogger(g) ==
    /\ logger.calls < MaxSetups
    /\ \E enableDebug \in BOOLEAN :
          Goes(g, "idle", "Do",
               [ logger EXCEPT !.enableDebug[g] = enableDebug,
                               !.calls = @ + 1 ])

\* Do: done is set, the call returns; done is unset, the call goes on to lock
OnceLoad(g) ==
    IF logger.done
    THEN Goes(g, "Do", "idle", [ logger EXCEPT !.returns = @ + 1 ])
    ELSE Goes(g, "Do", "lock", logger)

\* Do: o.m.Lock()
OnceLock(g) ==
    /\ logger.onceM = 0
    /\ Goes(g, "lock", "locked", [ logger EXCEPT !.onceM = g ])

\* Do with the mutex held, running the function whatever done is
OnceRecheck_NoCheck(g) ==
    Goes(g, "locked", "f", logger)

\* Do with the mutex held: done is loaded again
OnceRecheck(g) ==
    IF logger.done
    THEN Goes(g, "locked", "unlock", logger)
    ELSE Goes(g, "locked", "f", logger)

\* the function: loggerMux.Lock()
MuxLock(g) ==
    /\ logger.loggerMux = 0
    /\ Goes(g, "f", "assign", [ logger EXCEPT !.loggerMux = g ])

\* the function: debugLog = log.New(...)
SetDebugLog(g) ==
    \E opens \in BOOLEAN :
        Goes(g, "assign", "deferred",
             [ logger EXCEPT !.debugLog = newDebugLog(logger.enableDebug[g], opens),
                             !.inits = @ + 1 ])

\* the function returns: defer loggerMux.Unlock()
MuxUnlock(g) ==
    Goes(g, "deferred", "store", [ logger EXCEPT !.loggerMux = 0 ])

\* Do: done is stored when the function has returned
OnceStore(g) ==
    Goes(g, "store", "unlock", [ logger EXCEPT !.done = TRUE ])

\* Do: o.m.Unlock(), and setupLogger returns
OnceUnlock(g) ==
    Goes(g, "unlock", "idle", [ logger EXCEPT !.onceM = 0, !.returns = @ + 1 ])

LoggerNext ==
    \E g \in Goroutines :
        \/ CallSetupLogger(g)
        \/ OnceLoad(g)
        \/ OnceLock(g)
        \/ OnceRecheck(g)
        \/ MuxLock(g)
        \/ SetDebugLog(g)
        \/ MuxUnlock(g)
        \/ OnceStore(g)
        \/ OnceUnlock(g)

LoggerSpec == Init /\ [][LoggerNext]_vars

\* a task block with a diff section
DiffBlock == << HeaderA, DiffMarker, PlainLine, BlankLine, OkLine >>

\* logs of up to MaxTasks tasks, one of them with a diff section
DiffLogFiles ==
    { TasksLog(n, pattern) \o DiffBlock \o TasksLog(k, pattern) :
        n \in 0..(MaxTasks - 2), k \in 0..1, pattern \in LogPatterns }

DiffInit == \E f \in DiffLogFiles : StartedOn(f)

\* Update leaves the Model next; down: the message was a move down
Handled(next, down) ==
    /\ model' = next
    /\ downsFromTop' =
          IF down /\ downsFromTop >= 0 /\ next.selected = model.selected + 1
          THEN downsFromTop + 1
          ELSE IF next.selected = 0 /\ next.nodesViewport.YOffset = 0 THEN 0
          ELSE -1
    /\ UNCHANGED << parser, pc, watched, logger >>

\* Update has applied a filter and leaves the Model next
Filtered(next) ==
    /\ Handled(next, FALSE)
    /\ scenarioD' = IF scenarioD = 1 /\ watched \notin ShownIDs(next) THEN 2
                    ELSE scenarioD
    /\ UNCHANGED toggled

Normal == pc = "tui" /\ ~model.showingFilter

MoveUp ==
    /\ Normal
    /\ Handled(keyUp(model), FALSE)
    /\ UNCHANGED << toggled, scenarioD >>

MoveDown ==
    /\ Normal
    /\ Handled(keyDown(model), TRUE)
    /\ UNCHANGED << toggled, scenarioD >>

GoTop ==
    /\ Normal
    /\ Handled(keyTop(model), FALSE)
    /\ UNCHANGED << toggled, scenarioD >>

GoBottom ==
    /\ Normal
    /\ Handled(keyBottom(model), FALSE)
    /\ UNCHANGED << toggled, scenarioD >>

ToggleExpand ==
    /\ Normal
    /\ IF enterPanics(model)
       THEN pc' = "crashed" /\ UNCHANGED << parser, tui, logger >>
       ELSE IF Len(model.flatNodes) = 0
       THEN Handled(keyEnter(model), FALSE) /\ UNCHANGED << toggled, scenarioD >>
       ELSE LET id   == NodeAt(model, model.selected).ID
                next == keyEnter(model)
            IN  /\ Handled(next, FALSE)
                /\ toggled' = IF id = watched THEN 1 - toggled ELSE toggled
                /\ scenarioD' =
                      IF id # watched THEN scenarioD
                      ELSE IF model.filterInput = << >>
                              /\ NodeAt(next, next.selected).IsExpanded
                      THEN 1 ELSE 0

EnterFilterMode ==
    /\ Normal
    /\ Handled([ model EXCEPT !.showingFilter = TRUE ], FALSE)
    /\ UNCHANGED << toggled, scenarioD >>

UpdateFilterTerm ==
    /\ pc = "tui" /\ model.showingFilter
    /\ \E key \in FilterKeys :
          /\ key \in TypedKeys => Len(model.filterInput) < MaxTerm
          /\ Filtered(filterValue(model, textinputUpdate(model.filterInput, key)))

PasteFilterTerm ==
    /\ pc = "tui" /\ model.showingFilter
    /\ model.filterInput = << >>
    /\ \E term \in PastedTerms : Filtered(filterValue(model, term))

CommitFilter ==
    /\ pc = "tui" /\ model.showingFilter
    /\ Filtered(filterEnter(model))

CancelFilter ==
    /\ pc = "tui" /\ model.showingFilter
    /\ Filtered(filterEsc(model))

Resize ==
    /\ pc = "tui"
    /\ \E height \in Heights : Handled(windowSize(model, height), FALSE)
    /\ UNCHANGED << toggled, scenarioD >>

\* the key ctrl+c: the program ends when Update returns tea.Quit
CtrlC ==
    /\ pc = "tui"
    /\ LET next == keyCtrlC(model)
       IN  IF next.quitting
           THEN /\ model' = next
                /\ pc' = "quit"
                /\ UNCHANGED << parser, watched, toggled, scenarioD, downsFromTop,
                                logger >>
           ELSE Filtered(next)

TuiNext ==
    \/ MoveUp \/ MoveDown \/ GoTop \/ GoBottom \/ ToggleExpand
    \/ EnterFilterMode \/ UpdateFilterTerm \/ CommitFilter \/ CancelFilter
    \/ Resize \/ CtrlC

\* the interface on a parsed log, the filter typed key by key
TuiSpec == TuiInit /\ [][TuiNext]_vars

\* the lines a key scrolls the details by: one for ctrl+k and ctrl+j, a page
\* for pgup and pgdn, half a page for ctrl+u and ctrl+d
DetailSteps(m) ==
    { 1, m.detailsScroll.Height, Quot(m.detailsScroll.Height, 2) }

\* the keys pgup, ctrl+u and ctrl+k
ScrollDetailUp ==
    /\ Normal
    /\ \E n \in DetailSteps(model) : Handled(keyDetailUp(model, n), FALSE)
    /\ UNCHANGED << toggled, scenarioD >>

\* the keys pgdn, ctrl+d and ctrl+j
ScrollDetailDown ==
    /\ Normal
    /\ \E n \in DetailSteps(model) : Handled(keyDetailDown(model, n), FALSE)
    /\ UNCHANGED << toggled, scenarioD >>

\* the interface with the keys that scroll the details
ScrollSpec == TuiInit /\ [][TuiNext \/ ScrollDetailUp \/ ScrollDetailDown]_vars

\* the interface with whole terms pasted into an empty filter input
FilterSpec ==
    TuiInit /\ [][EnterFilterMode \/ PasteFilterTerm \/ CommitFilter \/ CancelFilter]_vars

\* the terms applyFuzzyFilter is called with
FuzzyTerms ==
    { << >>, << " ", " " >>, << "i", "p", "g" >>, << "G", "K", "P" >>,
      << "C", "F" >>, << "f", "l", "d" >>, << "h", "b" >>, << "r", "m", "l" >>,
      << "2", "5", "2", "3" >>, << "0", "1", " ", "0" >>, << " ", "o", "k", " " >>,
      << "k", "o" >>, << "l", "l" >>, << "l", " ", "p" >>, << "z" >> }

\* a call of applyFuzzyFilter with a term, which the filter input holds
ApplyFuzzyFilter ==
    /\ pc = "tui"
    /\ \E term \in FuzzyTerms :
          Filtered(applyFuzzyFilter([ model EXCEPT !.filterInput = term ], term))

\* applyFuzzyFilter on the Model of each log, term after term
FuzzySpec == TuiInit /\ [][ApplyFuzzyFilter]_vars

\* the same, on the logs that hold a diff section
DiffSpec ==
    DiffInit /\ [][EnterFilterMode \/ PasteFilterTerm \/ CommitFilter \/ CancelFilter]_vars

----------------------------------------------------------------------------
(* What the claims speak of: the input as a sequence of lines, cut into the *)
(* blocks that start at the lines opening a task.                          *)

\* the line opens a task
OpensTask(line) == HasPrefix(line, "TASK [")

\* the positions of the lines of f that open a task
HeaderPositions(f) == { i \in 1..Len(f) : OpensTask(f[i]) }

\* the position of the k-th such line
HeaderAt(f, k) ==
    CHOOSE i \in HeaderPositions(f) :
        Cardinality({ j \in HeaderPositions(f) : j <= i }) = k

\* the position of the last line before the next line that opens a task
BlockEnd(f, h) ==
    IF \E j \in HeaderPositions(f) : j > h
    THEN (CHOOSE j \in HeaderPositions(f) :
              j > h /\ \A i \in HeaderPositions(f) : i > h => j <= i) - 1
    ELSE Len(f)

\* the lines of the k-th task of f, header included
Block(f, k) == SubSeq(f, HeaderAt(f, k), BlockEnd(f, HeaderAt(f, k)))

\* the text of the lines, each followed by a line break
RECURSIVE TextOf(_)
TextOf(lines) ==
    IF Len(lines) = 0 THEN << >>
    ELSE Str(Head(lines)) \o << NL >> \o TextOf(Tail(lines))

\* the first call has returned a task list
FirstCallParsed == Len(returned) >= 1 /\ returned[1].err = ErrNone

----------------------------------------------------------------------------
(* C1: every task the first call returns has as RawText the lines of its    *)
(* block - from its header up to, not including, the next line that opens   *)
(* a task, or to the end of the input - each followed by a line break, in   *)
(* order, none omitted and none twice, diff lines included.                 *)

C1_RawTextIsBlock ==
    FirstCallParsed =>
        \A k \in 1..Len(returned[1].tasks) :
            /\ k <= Cardinality(HeaderPositions(file))
            /\ returned[1].tasks[k].RawText = TextOf(Block(file, k))

\* a returned task whose block holds a closed diff section and lines after it
C1_Witness ==
    /\ FirstCallParsed
    /\ \E k \in 1..Len(returned[1].tasks) :
          /\ returned[1].tasks[k].Diff # << >>
          /\ Len(Block(file, k)) >= 4
          /\ returned[1].tasks[k].RawText = TextOf(Block(file, k))

(* C2: the first call on a fresh LogParser returns one task for each line   *)
(* that opens a task, in file order, with the IDs 1, 2, ..., N.             *)

C2_OneTaskPerHeader ==
    FirstCallParsed =>
        /\ Len(returned[1].tasks) = Cardinality(HeaderPositions(file))
        /\ \A k \in 1..Len(returned[1].tasks) :
              /\ returned[1].tasks[k].ID = k
              /\ Head(returned[1].tasks[k].RawText) = file[HeaderAt(file, k)]

\* three tasks, the second opened inside a diff section of the first
C2_Witness ==
    /\ FirstCallParsed
    /\ Len(returned[1].tasks) = 3
    /\ file[1] = HeaderA /\ file[2] = DiffMarker /\ file[3] = HeaderB

----------------------------------------------------------------------------
(* Steps of the scan loop, as the claims about single lines see them. *)

\* the step runs the loop body on one line and the loop goes on
ReadsLine == pc = "scan" /\ pc' = "scan" /\ scanned' = scanned + 1

\* the line that step reads
LineRead == file'[scanned']

\* a status line: ok:, changed:, skipping: or failed: with a host in brackets
IsStatusLine(line) ==
    \/ Len(okRegex(line)) > 1 \/ Len(changedRegex(line)) > 1
    \/ Len(skippingRegex(line)) > 1 \/ Len(failedRegex(line)) > 1

\* a diff block of the current task is open: its marker was read, no line
\* has closed it
DiffBlockOpen == currentTask # << >> /\ inDiffSection /\ Len(diffLines) > 0

(* C3: a status line read while a diff block is open closes the block into  *)
(* the task's Diff and is then applied by the in-task rules: it sets the    *)
(* task's Status and Host.                                                  *)

C3_StatusLineClosesDiffAndApplies ==
    [][ (ReadsLine /\ DiffBlockOpen /\ IsStatusLine(LineRead)) =>
           /\ ~inDiffSection'
           /\ currentTask'[1].Diff = FlushDiff(currentTask[1], diffLines).Diff
           /\ currentTask'[1].Status = TaskLine(currentTask[1], LineRead).Status
           /\ currentTask'[1].Host = TaskLine(currentTask[1], LineRead).Host ]_vars

(* C4: a task header read while a diff block is open flushes the pending    *)
(* diff lines into the superseded task, opens the new task with an empty    *)
(* Diff and leaves the diff state; the line after a header is handled by    *)
(* the in-task rules.                                                       *)

C4_HeaderInDiffLeavesDiffState ==
    [][ /\ (ReadsLine /\ DiffBlockOpen /\ OpensTask(LineRead)) =>
              /\ p_tasks' = Append(p_tasks, FlushDiff(currentTask[1], diffLines))
              /\ currentTask'[1].Diff = << >>
              /\ ~inDiffSection'
        /\ ( /\ ReadsLine
             /\ currentTask # << >>
             /\ Len(currentTask[1].RawText) = 2
             /\ ~OpensTask(LineRead)
             /\ ~diffStartRegex(LineRead) ) =>
              currentTask'[1] = TaskLine(AppendRaw(currentTask[1], LineRead), LineRead)
      ]_vars

\* the lines of a block (header left out) that lie in a diff block: from a
\* marker up to, not including, the blank or status line that ends the block
RECURSIVE DiffBlockLines(_, _)
DiffBlockLines(lines, open) ==
    IF Len(lines) = 0 THEN << >>
    ELSE IF diffStartRegex(Head(lines))
         THEN << Head(lines) >> \o DiffBlockLines(Tail(lines), TRUE)
    ELSE IF open /\ (Head(lines) = "" \/ IsStatusLine(Head(lines)))
         THEN DiffBlockLines(Tail(lines), FALSE)
    ELSE IF open
         THEN << Head(lines) >> \o DiffBlockLines(Tail(lines), TRUE)
    ELSE DiffBlockLines(Tail(lines), FALSE)

\* how often x occurs in the sequence s
Count(x, s) == Cardinality({ i \in 1..Len(s) : s[i] = x })

(* C5: no diff line is lost: every line of a diff block of a task's block   *)
(* is in the Diff of the returned task, as often as it is in the blocks,    *)
(* also when a marker is read while a diff block is open.                   *)

C5_NoDiffLineLost ==
    FirstCallParsed =>
        \A k \in 1..Len(returned[1].tasks) :
            \A x \in Lines :
                Count(x, DiffBlockLines(Tail(Block(file, k)), FALSE))
                    <= Count(x, returned[1].tasks[k].Diff)

(* C6: no line content makes ParseFile crash.                               *)

C6_NoLineAbortsParsing == pc # "crashed"

\* the block holds no status line
NoStatusLine(lines) == \A i \in 1..Len(lines) : ~IsStatusLine(lines[i])

\* the hosts named by the started lines of the block
StartedHosts(lines) ==
    { startedRegex(lines[i])[3] : i \in { j \in 1..Len(lines) : Len(startedRegex(lines[j])) > 2 } }

(* C7, as claimed: a task whose block holds no status line is returned with *)
(* Status "unknown" and Host "".                                            *)

C8_OnlyInputErrors ==
    \A c \in 1..Len(returned) : returned[c].err \in { ErrNone, ErrOpenFile, ErrReadFile }

(* C9: two calls of ParseFile on the same LogParser and the same file       *)
(* return the same task list.                                               *)

C9_SecondCallReturnsSameList ==
    (Len(returned) >= 2 /\ returned[1].err = ErrNone /\ returned[2].err = ErrNone) =>
        returned[2].tasks = returned[1].tasks

(* C10: the lines read before the first task header create and change       *)
(* nothing, whatever they are, and an input without task header that is     *)
(* read to its end yields the empty task list and no error.                 *)

C10_LinesBeforeFirstHeaderDiscarded ==
    /\ (pc = "scan" /\ HeaderPositions(SubSeq(file, 1, scanned)) = {}) =>
          /\ currentTask = << >>
          /\ p_tasks = << >>
          /\ taskID = 1
          /\ ~inDiffSection
          /\ diffLines = << >>
    /\ ( /\ Len(returned) = 1
         /\ fileEnd
         /\ HeaderPositions(file) = {}
         /\ \A i \in 1..Len(file) : file[i] # LongLine ) =>
          /\ returned[1] = Result(<< >>, ErrNone)
          /\ p_tasks = << >>

\* an input of a marker, a status line and a path line, and no header
C10_Witness ==
    /\ Len(returned) = 1
    /\ returned[1] = Result(<< >>, ErrNone)
    /\ file = << DiffMarker, OkLine, PathLine >>

----------------------------------------------------------------------------
(* What the claims on the interface speak of.                              *)

\* the interface runs
TuiRuns == pc = "tui"

\* the places, from 0, that the watched task has in the displayed list
WatchedAt == { i \in 0..(Len(model.flatNodes) - 1) : NodeAt(model, i).ID = watched }

\* no filter is active: the term is empty
NoFilter == model.filterInput = << >>

\* C11: whenever a task is in the displayed list, its IsExpanded is the
\* parity of the ToggleExpand events applied to that task so far, toggles
\* made under a non-empty filter included.
C11_ExpandedIsToggleParity ==
    TuiRuns => \A i \in WatchedAt : NodeAt(model, i).IsExpanded = (toggled = 1)

\* C12: Scenario D.  A task expanded by a toggle made with no filter active,
\* then excluded by a filter, is in the displayed list with IsExpanded true
\* once the filter is cleared (by an empty term or by Esc).
C12_ExpandedAfterFilterCleared ==
    (TuiRuns /\ NoFilter /\ scenarioD = 2)
        => \E i \in WatchedAt : NodeAt(model, i).IsExpanded

\* the filter has been cleared over a task that went through Scenario D, in
\* a list of several tasks
C12_Witness ==
    /\ TuiRuns /\ NoFilter /\ scenarioD = 2
    /\ \E i \in WatchedAt : NodeAt(model, i).IsExpanded
    /\ Len(model.nodes) > 1

\* a message that runs applyFilter: a key in the filter input, Enter or Esc
FilterEvent == UpdateFilterTerm \/ PasteFilterTerm \/ CommitFilter \/ CancelFilter

\* C13: every message that runs applyFilter (a filter-term update, Enter,
\* Esc) leaves selected = 0 and the list offset = 0, whatever they were.
C13_FilterResetsSelectedAndOffset ==
    [][FilterEvent => (model'.selected = 0 /\ model'.nodesViewport.YOffset = 0)]_vars

\* C14: after any sequence of events the selected index is at least 0 and at
\* most max(0, len(flat) - 1).
C14_SelectedInRange ==
    TuiRuns => /\ model.selected >= 0
               /\ model.selected <= Max(0, Len(model.flatNodes) - 1)

\* a filter has shortened the list and the selection is on its last node,
\* below the first
C14_Witness ==
    /\ TuiRuns
    /\ Len(model.flatNodes) < Len(model.nodes)
    /\ model.selected = Len(model.flatNodes) - 1
    /\ model.selected > 0

\* the flattened sequence is empty and the keys of the list are handled
EmptyList == TuiRuns /\ Len(model.flatNodes) = 0 /\ ~model.showingFilter

\* C15: when the flattened sequence is empty, MoveUp, MoveDown, GoTop,
\* GoBottom and ToggleExpand index nothing out of range, leave selected = 0
\* and leave the filtered list and every node's expansion state as they are.
C15_EmptyListKeysChangeNothing ==
    EmptyList =>
        /\ ~enterPanics(model)
        /\ \A next \in { keyUp(model), keyDown(model), keyTop(model),
                          keyBottom(model), keyEnter(model) } :
              /\ next.selected = 0
              /\ next.filteredNodes = model.filteredNodes
              /\ next.nodes = model.nodes

\* a committed filter that no task of a several-task log matches
C15_Witness == EmptyList /\ Len(model.nodes) > 1 /\ model.filterInput # << >>

\* the rendered row of the selected node: its index plus expandedNodeSize
\* rows for each expanded node before it in the flattened sequence
SelectedRow(m) ==
    m.selected + m.expandedNodeSize
                 * Cardinality({ i \in ExpandedAt(m) : i < m.selected })

\* the selected row lies in [offset, offset + viewportHeight)
SelectedVisible(m) ==
    /\ SelectedRow(m) >= m.nodesViewport.YOffset
    /\ SelectedRow(m) < m.nodesViewport.YOffset + m.nodesViewport.Height

\* C16: after every MoveUp or MoveDown, whichever nodes are expanded, the
\* row of the selected node lies inside the visible window of the node list.
C16_MoveKeepsSelectedVisible ==
    [][(MoveUp \/ MoveDown) => SelectedVisible(model')]_vars

\* downsFromTop successive MoveDown events, each of which moved the selection,
\* have followed a state with selected = 0 and offset = 0, and no node at or
\* below the selection is expanded
DownsFromTop ==
    /\ TuiRuns
    /\ downsFromTop >= 1
    /\ \A i \in ExpandedAt(model) : i < model.selected

C18_ExpandedCountIsExact ==
    TuiRuns => model.expandedNodeCount = Cardinality(ExpandedAt(model))

\* a filter event has replaced a flattened sequence with two expanded nodes by
\* one that shows fewer expanded nodes than the full list holds
C18_Witness ==
    /\ TuiRuns
    /\ model.filterInput # << >>
    /\ model.expandedNodeCount >= 1
    /\ Cardinality({ i \in 1..Len(model.nodes) : model.nodes[i].IsExpanded })
          > model.expandedNodeCount

\* the IDs of the tasks on display, in the order of the flattened sequence
ShownSeq(m) == [ i \in 1..Len(m.flatNodes) |-> NodeAt(m, i - 1).ID ]

\* the IDs of all tasks, in the order of the log
AllSeq(m) == [ i \in 1..Len(m.nodes) |-> m.nodes[i].ID ]

\* the term is empty or holds nothing but spaces
OnlyWhitespace(term) == \A i \in 1..Len(term) : term[i] = " "

\* C19: a filter term that is empty or consists only of whitespace retains
\* all tasks, in their original order.
C19_WhitespaceTermRetainsAll ==
    (TuiRuns /\ OnlyWhitespace(model.filterInput)) => ShownSeq(model) = AllSeq(model)

\* sub occurs in s as a run of adjacent characters
Occurs(sub, s) ==
    \E from \in 1..(Len(s) + 1) : \E to \in 0..Len(s) : SubSeq(s, from, to) = sub

\* the lower-cased term occurs in one of the seven texts of the parsed task
TermMatches(task, term) ==
    LET date  == Chars(task.StartTime[1]) \o << "-" >> \o Chars(task.StartTime[2])
                 \o << "-" >> \o Chars(task.StartTime[3])
        clock == Chars(task.StartTime[4]) \o << ":" >> \o Chars(task.StartTime[5])
                 \o << ":" >> \o Chars(task.StartTime[6])
    IN  \E text \in { Lower(task.Description), Lower(task.Status), Lower(task.Host),
                      Lower(task.Path), date \o << " " >> \o clock, date, clock } :
            Occurs(ToLower(term), text)

\* the IDs of the parsed tasks that satisfy Keep, in the order of the log
TasksWhere(Keep(_)) ==
    LET kept == SelectSeq([ i \in 1..Len(p_tasks) |-> i ], LAMBDA i : Keep(p_tasks[i]))
    IN  [ k \in 1..Len(kept) |-> p_tasks[kept[k]].ID ]

FilterTerms ==
    { << >>, << "k" >>, << "f", "a", "i", "l" >>, << "O", "K" >>, << "z" >> }

\* the nodes on display, with their fields, in the order of the flattened
\* sequence
Displayed(m) == [ i \in 1..Len(m.flatNodes) |-> NodeAt(m, i - 1) ]

\* a Model that shares nothing with m but the full node list
OnlyNodesOf(m) ==
    [ m EXCEPT !.filteredNodes = << >>, !.filteredIsNodes = FALSE,
               !.flatNodes = << >>, !.selected = 0, !.expandedNodeCount = 0 ]

\* C21: applying a term twice in a row displays the same list as applying it
\* once, the list displayed depends only on the term and the full node list,
\* and applyFilter leaves the full node list as it is.
C21_FilterPureIdempotent ==
    TuiRuns =>
        \A term \in FilterTerms :
            LET once  == applyFilter(model, term)
                twice == applyFilter(once, term)
            IN  /\ Displayed(twice) = Displayed(once)
                /\ Displayed(once) = Displayed(applyFilter(OnlyNodesOf(model), term))
                /\ once.nodes = model.nodes

\* a filter is in force that hides some tasks, and a node on display differs
\* in its expansion from the node of the full list it was copied from
C21_Witness ==
    /\ TuiRuns
    /\ model.filterInput # << >>
    /\ Len(model.flatNodes) < Len(model.nodes)
    /\ \E i \in 1..Len(model.flatNodes) : \E j \in 1..Len(model.nodes) :
          /\ Displayed(model)[i].ID = model.nodes[j].ID
          /\ Displayed(model)[i].IsExpanded # model.nodes[j].IsExpanded

\* the characters of a Diff, which the parser holds as lines and line breaks
RECURSIVE DiffChars(_)
DiffChars(diff) ==
    IF diff = << >> THEN << >>
    ELSE (IF Head(diff) = NL THEN << NL >> ELSE Chars(Head(diff))) \o DiffChars(Tail(diff))

\* the term occurs in the Diff of the task, whatever the case of the letters
InDiff(task, term) == Occurs(ToLower(term), ToLower(DiffChars(task.Diff)))

\* C22: a task whose Diff contains the term, case-insensitively, is retained
\* by the filter, even when none of its other fields matches.
C22_FilterSearchesDiff ==
    (TuiRuns /\ model.filterInput # << >>) =>
        \A i \in 1..Len(p_tasks) :
            InDiff(p_tasks[i], model.filterInput) => p_tasks[i].ID \in ShownIDs(model)

\* the characters of pattern are in s in this order, with any characters
\* between them
RECURSIVE InOrderIn(_, _)
InOrderIn(pattern, s) ==
    IF pattern = << >> THEN TRUE
    ELSE \E j \in 1..Len(s) :
            /\ s[j] = pattern[Len(pattern)]
            /\ InOrderIn(SubSeq(pattern, 1, Len(pattern) - 1), SubSeq(s, 1, j - 1))

\* the texts of a parsed task the fuzzy filter looks at
FuzzyTexts(task) ==
    { Chars(task.Description), Chars(task.Status), Chars(task.Host), Chars(task.Path),
      Chars(task.StartTime[1]) \o << "-" >> \o Chars(task.StartTime[2]) \o << "-" >>
          \o Chars(task.StartTime[3]) \o << " " >> \o Chars(task.StartTime[4])
          \o << ":" >> \o Chars(task.StartTime[5]) \o << ":" >> \o Chars(task.StartTime[6]) }

\* the term without the spaces at its two ends
Trimmed(term) ==
    LET inner == { i \in 1..Len(term) : term[i] # " " }
    IN  IF inner = { } THEN << >>
        ELSE SubSeq(term, CHOOSE i \in inner : \A j \in inner : i <= j,
                          CHOOSE i \in inner : \A j \in inner : i >= j)

\* C23: fuzzyMatch(pattern, s) is true exactly when the characters of the
\* lower-cased pattern occur in the lower-cased s in order, adjacent or not
\* (the empty pattern matches every s), and applyFuzzyFilter retains, in
\* their order, exactly the tasks of which Description, Status, Host, Path
\* or the StartTime rendering fuzzy-matches the trimmed term.
C23_FuzzyFilterRetainsInOrderMatches ==
    TuiRuns =>
        /\ \A i \in 1..Len(p_tasks) : \A s \in FuzzyTexts(p_tasks[i]) :
              \A pattern \in FuzzyTerms :
                 fuzzyMatch(pattern, s) <=> InOrderIn(ToLower(pattern), ToLower(s))
        /\ ShownSeq(model)
             = TasksWhere(LAMBDA task :
                  \E s \in FuzzyTexts(task) :
                      InOrderIn(ToLower(Trimmed(model.filterInput)), ToLower(s)))

\* a term whose characters are apart in the description of some tasks has
\* kept those tasks and dropped the others
C23_Witness ==
    /\ TuiRuns
    /\ model.filterInput = << "i", "p", "g" >>
    /\ Len(model.flatNodes) >= 1
    /\ Len(model.flatNodes) < Len(model.nodes)

\* C24: after every Resize, for every terminal height, the node list panel
\* is at least minNodesHeight (3) rows high.
C24_NodePanelKeepsItsMinimum ==
    [][Resize => model'.nodesViewport.Height >= minNodesHeight]_vars

\* the offset is one the viewport vp can have for its content and height
ValidOffset(offset, vp) == offset >= 0 /\ offset <= Max(0, vp.lines - vp.Height)

\* C25: a Resize leaves selected, the filter term, the filtered list and the
\* expansion of every node as they are, and keeps the offset of the list
\* whenever that offset is still valid for the new viewport height.
C25_ResizeKeepsListAndOffset ==
    [][Resize =>
          /\ model'.selected = model.selected
          /\ model'.filterInput = model.filterInput
          /\ model'.filteredNodes = model.filteredNodes
          /\ model'.flatNodes = model.flatNodes
          /\ model'.nodes = model.nodes
          /\ ValidOffset(model.nodesViewport.YOffset, model'.nodesViewport)
               => model'.nodesViewport.YOffset = model.nodesViewport.YOffset]_vars

\* the part of C25 that holds: the Resize changes nothing of the list
ResizeKeepsList ==
    [][Resize =>
          /\ model'.selected = model.selected
          /\ model'.filterInput = model.filterInput
          /\ model'.filteredNodes = model.filteredNodes
          /\ model'.flatNodes = model.flatNodes
          /\ model'.nodes = model.nodes]_vars

\* GoTop leaves selected = 0 and offset = 0
GoTopAtTop ==
    [][GoTop => model'.selected = 0 /\ model'.nodesViewport.YOffset = 0]_vars

\* C26: GoTop sets selected = 0 and offset = 0; GoBottom on a non-empty
\* flattened sequence selects the last node and leaves its row, counted with
\* the detail rows of the expanded nodes before it, inside the visible window.
C26_GoTopGoBottomShowSelected ==
    [][/\ GoTop => model'.selected = 0 /\ model'.nodesViewport.YOffset = 0
       /\ (GoBottom /\ Len(model.flatNodes) > 0) =>
              /\ model'.selected = Len(model.flatNodes) - 1
              /\ SelectedVisible(model')]_vars

\* the nodes of the sequence after are those of the sequence before, but for
\* the IsExpanded of the nodes whose ID is in ids, which is flipped
FlippedIn(before, after, ids) ==
    /\ Len(after) = Len(before)
    /\ \A i \in 1..Len(before) :
          after[i] = IF before[i].ID \in ids
                     THEN [ before[i] EXCEPT !.IsExpanded = ~@ ]
                     ELSE before[i]

\* C27: ToggleExpand flips IsExpanded of the node under selected and of no
\* other node, leaves the members and the order of the filtered and the
\* flattened sequence and selected as they are, and a second ToggleExpand
\* restores the expansion there was.
C27_ToggleFlipsOnlySelected ==
    [][(ToggleExpand /\ Len(model.flatNodes) > 0) =>
          LET id == NodeAt(model, model.selected).ID
          IN  /\ pc' = "tui"
              /\ model'.selected = model.selected
              /\ model'.flatNodes = model.flatNodes
              /\ FlippedIn(model.filteredNodes, model'.filteredNodes, { id })
              /\ IF model.filteredIsNodes
                 THEN FlippedIn(model.nodes, model'.nodes, { id })
                 ELSE model'.nodes = model.nodes
              /\ keyEnter(model').filteredNodes = model.filteredNodes
              /\ keyEnter(model').nodes = model.nodes]_vars

\* the watched node has been toggled among other nodes, which are collapsed
C27_Witness ==
    /\ TuiRuns
    /\ toggled = 1
    /\ Len(model.flatNodes) >= 2
    /\ { NodeAt(model, i).ID : i \in ExpandedAt(model) } = { watched }

\* C28: after every processed event the details panel holds the detail text
\* of the node at selected, or the placeholder when the flattened sequence is
\* empty, also after each update of the filter term as it is typed.
C28_DetailsAreOfSelected ==
    TuiRuns =>
        model.detailsViewport =
            IF Len(model.flatNodes) = 0 THEN << NoNodeSelected >>
            ELSE << NodeAt(model, model.selected).Name,
                    NodeAt(model, model.selected).Description >>

\* C29: whenever a ctrl+c key is processed, in normal mode or with the
\* filter input open, the Model is quitting and the quit command is issued.
C29_CtrlCQuitsEverywhere == TuiRuns => keyCtrlC(model).quitting

\* the part of C29 that holds: ctrl+c quits in normal mode
CtrlCQuitsInNormalMode == Normal => keyCtrlC(model).quitting

\* C30: CancelFilter closes the filter input, clears the filter term and
\* displays all tasks again in their original order, whatever was typed.
C30_CancelRestoresAllTasks ==
    [][CancelFilter =>
          /\ ~model'.showingFilter
          /\ model'.filterInput = << >>
          /\ Displayed(model') = model.nodes
          /\ ShownSeq(model') = [ i \in 1..Len(p_tasks) |-> p_tasks[i].ID ]]_vars

\* the filter input is closed and empty and all tasks are displayed, after a
\* term has hidden the watched task while the input was open
C30_Witness ==
    /\ TuiRuns
    /\ scenarioD = 2
    /\ ~model.showingFilter
    /\ model.filterInput = << >>
    /\ Len(model.flatNodes) = Len(p_tasks)
    /\ Len(p_tasks) >= 2

\* ParseFile has returned no error and no task
NoTaskRecognised ==
    Len(returned) = 1 /\ returned[1].err = ErrNone /\ Len(returned[1].tasks) = 0

\* C31: when the file is read without error and no task is recognised, main
\* ends fatally before a Model is built, so that no Model starts with an
\* empty full task list, and the message differs from that of a file error.
C31_NoTasksIsFatalBeforeModel ==
    /\ [](model.loaded => Len(model.nodes) > 0)
    /\ [](pc = FatalNoTasks => NoTaskRecognised /\ model = NoModel)
    /\ [](pc = FatalParsing => Len(returned) = 1 /\ returned[1].err # ErrNone)
    /\ [][(main /\ NoTaskRecognised) => pc' = FatalNoTasks]_vars

\* main has ended with "No tasks found" on a file that holds lines
C31_Witness == pc = FatalNoTasks /\ Len(file) >= 2 /\ model = NoModel

\* C32: once ParseFile has appended a task to its list, no later line
\* changes a field of it: a step only appends to the list, each line acts on
\* the task that is current, and what a call has returned stays as it is.
C32_AppendedTasksNeverChange ==
    [][/\ Len(p_tasks') >= Len(p_tasks)
       /\ \A i \in 1..Len(p_tasks) : p_tasks'[i] = p_tasks[i]
       /\ \A k \in 1..Len(returned) : returned'[k] = returned[k]]_vars

\* a task has been appended and lines have since set the status, the path
\* or a diff of the next task
C32_Witness ==
    /\ Len(p_tasks) >= 1
    /\ currentTask # << >>
    /\ currentTask[1].ID = p_tasks[Len(p_tasks)].ID + 1
    /\ currentTask[1].Status # "unknown"
    /\ currentTask[1].Status # p_tasks[Len(p_tasks)].Status

\* the lines whose date-time time.Parse rejects: hour 25, 31 February, and a
\* day of one digit
UnparsableTimestamps == { BadHourLine, BadDayLine, OneDigitDay }

\* this step is the loop body on line, read in a task outside a diff section
ReadsInTask(line) ==
    /\ pc = "scan"
    /\ scanned' = scanned + 1
    /\ Len(file') >= scanned'
    /\ file'[scanned'] = line
    /\ currentTask # << >>
    /\ ~inDiffSection

\* C33: a line that matches the timestamp pattern and whose date-time does
\* not parse leaves StartTime as it was (zero if none was parsed before),
\* changes no other field but the raw text it is added to, and the scan goes
\* on; a word that is no month name counts as month 01 and is no failure.
C33_BadTimestampChangesNothing ==
    [][/\ \A line \in UnparsableTimestamps :
            ReadsInTask(line) =>
               /\ currentTask' = << [ currentTask[1] EXCEPT
                                        !.RawText = @ \o << line, NL >> ] >>
               /\ pc' = "scan"
               /\ p_tasks' = p_tasks
               /\ returned' = returned
               /\ << taskID', inDiffSection', diffLines' >>
                     = << taskID, inDiffSection, diffLines >>
       /\ ReadsInTask(NoMonthLine) =>
               /\ currentTask' = << [ currentTask[1] EXCEPT
                                        !.RawText = @ \o << NoMonthLine, NL >>,
                                        !.StartTime =
                                            << "2025", "01", "28", "02", "05", "23" >> ] >>
               /\ pc' = "scan"]_vars

\* a timestamp has been parsed and the line after it is one that does not
\* parse: the task keeps the first
C33_Witness ==
    /\ pc = "scan"
    /\ scanned >= 3
    /\ file[scanned] \in UnparsableTimestamps
    /\ file[scanned - 1] = TimeLine
    /\ currentTask # << >>
    /\ currentTask[1].StartTime = << "2025", "10", "28", "02", "05", "23" >>

\* C34: after every ToggleExpand on a non-empty list, whichever other nodes
\* are expanded, the row of the selected node lies inside the visible window
\* of the node list.
C34_ToggleKeepsSelectedVisible ==
    [][(ToggleExpand /\ Len(model.flatNodes) > 0 /\ pc' = "tui")
         => SelectedVisible(model')]_vars

\* this step assigns debugLog, in the call of goroutine g
Assigns(g) == logger.at[g] = "assign" /\ logger'.at[g] = "deferred"

\* C35: setupLogger sets the package logger exactly once, however the calls
\* interleave: debugLog is assigned only while it is nil, by a call begun
\* before any call has returned, and to what the flag of that call says (the
\* file logger only with enableDebug, a discarding logger without it or when
\* debug.log does not open); no later call replaces it; once a call has
\* returned debugLog is not nil.
C35_LoggerSetOnce ==
    /\ [](logger.inits <= 1)
    /\ [](logger.returns > 0 => logger.debugLog # "nil" /\ logger.inits = 1)
    /\ [][logger'.debugLog # logger.debugLog =>
            /\ logger.debugLog = "nil"
            /\ logger.returns = 0
            /\ \E g \in Goroutines :
                  /\ Assigns(g)
                  /\ logger'.debugLog = "file" => logger.enableDebug[g]
                  /\ ~logger.enableDebug[g] => logger'.debugLog = "discard"]_vars
    /\ [][logger.debugLog # "nil" => logger'.debugLog = logger.debugLog]_vars

\* a call with enableDebug has returned after a call without it set a
\* discarding logger, and a third call is under way
C35_Witness ==
    /\ logger.debugLog = "discard"
    /\ logger.returns >= 2
    /\ \E g \in Goroutines : logger.enableDebug[g] /\ logger.at[g] = "idle"
    /\ \E g \in Goroutines : logger.at[g] = "Do"

\* C36: after every event the node list on display holds exactly the tasks
\* the substring filter keeps for the value the filter input has now, all
\* tasks for the empty value, in the order of the log: the list is never
\* stale with respect to the term.
C36_DisplayedListFollowsTerm ==
    TuiRuns =>
        /\ ShownSeq(model)
             = TasksWhere(LAMBDA task : model.filterInput = << >>
                                        \/ TermMatches(task, model.filterInput))
        /\ model.filterInput = << >> => ShownSeq(model) = AllSeq(model)

\* a committed term hides some tasks, and the selection has since moved and
\* a node has been expanded
C36_Witness ==
    /\ TuiRuns
    /\ ~model.showingFilter
    /\ model.filterInput # << >>
    /\ Len(model.flatNodes) >= 2
    /\ Len(model.flatNodes) < Len(model.nodes)
    /\ model.selected >= 1
    /\ ExpandedAt(model) # {}

\* the IDs of the filtered list, in its order
FilteredSeq(m) == [ i \in 1..Len(m.filteredNodes) |-> m.filteredNodes[i].ID ]

\* the IDs of the expanded nodes of a list
ExpandedIn(nodes) == { nodes[i].ID : i \in { j \in 1..Len(nodes) : nodes[j].IsExpanded } }

\* the step leaves the filter and the expansion of every node as they were
FilterAndExpansionKept ==
    /\ model'.filterInput = model.filterInput
    /\ model'.showingFilter = model.showingFilter
    /\ FilteredSeq(model') = FilteredSeq(model)
    /\ ShownSeq(model') = ShownSeq(model)
    /\ ExpandedIn(model'.nodes) = ExpandedIn(model.nodes)
    /\ ExpandedIn(model'.filteredNodes) = ExpandedIn(model.filteredNodes)

\* C37: MoveUp, MoveDown, GoTop, GoBottom, ScrollDetailUp and
\* ScrollDetailDown change neither the filter term, nor the filter-mode flag,
\* nor the members or the order of the filtered list, nor the IsExpanded of
\* any node; the two that scroll the details also leave selected and the
\* offset of the node list as they were.
C37_MovesAndScrollsKeepFilter ==
    /\ [][(MoveUp \/ MoveDown \/ GoTop \/ GoBottom
             \/ ScrollDetailUp \/ ScrollDetailDown) => FilterAndExpansionKept]_vars
    /\ [][(ScrollDetailUp \/ ScrollDetailDown) =>
             /\ model'.selected = model.selected
             /\ model'.nodesViewport = model.nodesViewport]_vars

\* the details have been scrolled while a term hides some tasks, a node is
\* expanded and the node list is scrolled
C37_Witness ==
    /\ TuiRuns
    /\ model.detailsScroll.YOffset > 0
    /\ model.filterInput # << >>
    /\ Len(model.flatNodes) < Len(model.nodes)
    /\ ExpandedAt(model) # {}
    /\ model.nodesViewport.YOffset > 0

\* the status lines of a block, in order. A status line read in a diff block
\* closes the block, so no status line lies inside one
StatusLinesOf(lines) == SelectSeq(lines, IsStatusLine)

\* the status a status line names
StatusNamed(line) ==
    CASE Len(okRegex(line)) > 1       -> "ok"
      [] Len(changedRegex(line)) > 1  -> "changed"
      [] Len(skippingRegex(line)) > 1 -> "skipping"
      [] Len(failedRegex(line)) > 1   -> "failed"
      [] OTHER                        -> "unknown"

\* the host a status line names
HostNamed(line) ==
    CASE Len(okRegex(line)) > 1       -> okRegex(line)[2]
      [] Len(changedRegex(line)) > 1  -> changedRegex(line)[2]
      [] Len(skippingRegex(line)) > 1 -> skippingRegex(line)[2]
      [] Len(failedRegex(line)) > 1   -> failedRegex(line)[2]
      [] OTHER                        -> ""

\* C38: a task whose block holds several status lines outside diff blocks is
\* returned with the Status and the Host of the last of them: both come from
\* the same line.
C38_StatusAndHostFromLastStatusLine ==
    FirstCallParsed =>
        \A k \in 1..Len(returned[1].tasks) :
            LET statusLines == StatusLinesOf(Block(file, k))
                last        == statusLines[Len(statusLines)]
            IN  Len(statusLines) >= 2 =>
                    /\ returned[1].tasks[k].Status = StatusNamed(last)
                    /\ returned[1].tasks[k].Host = HostNamed(last)

\* the lines of a text: what stands between its line breaks
LinesOf(text) == SelectSeq(text, LAMBDA x : x # NL)

\* C39: no diff line is misattributed: the lines of the Diff of every
\* returned task are lines of the RawText of that same task, in the same
\* order, whichever way the diff block was closed (a blank line, a status
\* line, the next header, the end of the input).
C39_DiffLinesAreOwnRawLines ==
    FirstCallParsed =>
        \A k \in 1..Len(returned[1].tasks) :
            /\ InOrderIn(LinesOf(returned[1].tasks[k].Diff),
                         LinesOf(returned[1].tasks[k].RawText))
            /\ InOrderIn(LinesOf(returned[1].tasks[k].Diff), Tail(Block(file, k)))

\* two tasks with a Diff each: the block of the first was closed by the
\* header of the second, that of the second by the end of the input
C39_Witness ==
    /\ FirstCallParsed
    /\ Len(returned[1].tasks) = 2
    /\ returned[1].tasks[1].Diff = << DiffMarker >>
    /\ returned[1].tasks[2].Diff = << PlainLine >>

====
